---------------------------- MODULE Spec2Model ----------------------------
(***************************************************************************)
(* State-machine model of the reporting scripts of the repository:         *)
(*   get-cex-crypto-prices.py   the exchange price table                   *)
(*   get-cex-balances.py        the exchange balance report                *)
(*   get-web3-asset-status.py   the on-chain balance / price tables        *)
(*   get-asset-status.py        the same with ETH, SOL and FLR only        *)
(* Each script is single-threaded; the state is the script's variables,    *)
(* its position (pc), what it printed (stdout) and the requests it sent    *)
(* upstream (requests).  The upstream sources are the environment: every   *)
(* request is answered nondeterministically.                               *)
(***************************************************************************)
EXTENDS Integers, Sequences, FiniteSets, TLC

VARIABLES
    pc,             \* position of the running script
    exc,            \* the exception that left main, or NoExc
    stdout,         \* the lines printed so far
    requests,       \* the upstream requests made so far, with their outcome
    upsets,         \* number of non-nominal upstream answers so far
    \* get-cex-crypto-prices.py
    asset_i,        \* index in tickers of the asset of the current iteration
    data,           \* get_crypto_prices_df: data
    exchange_rate,  \* get_crypto_prices_df: exchange_rate
    binance,        \* <<binance_usdt, binance_krw>>
    upbit_price,
    korbit_price,
    okx,            \* <<okx_usdt_price, okx_krw_price>>
    bithumb_price,
    df,             \* main: the formatted data frame
    main_rate,      \* main: exchange_rate as returned by get_crypto_prices_df
    \* get-cex-balances.py
    env,            \* the environment variables (os.getenv)
    exchanges,      \* ExchangeManager.exchanges, in insertion order
    balances,       \* main: balances
    non_zero_balances,
    detailed_price, \* main: upbit_/korbit_/bithumb_detailed_price
    price,          \* main: price
    \* get-web3-asset-status.py and get-asset-status.py
    script,         \* which of the two scripts runs
    debug,          \* main: debug
    checker,        \* CryptoBalanceChecker: the three addresses
    balance,        \* main: eth_balance ... wflr_balance (None: not fetched yet)
    prices,         \* main: prices
    balance_data,   \* main: balance_data
    price_data      \* main: price_data

price_vars == <<asset_i, data, exchange_rate, binance, upbit_price,
                korbit_price, okx, bithumb_price, df, main_rate>>

cex_vars == <<env, exchanges, balances, non_zero_balances, detailed_price, price>>

status_vars == <<script, debug, checker, balance, prices, balance_data, price_data>>

vars == <<pc, exc, stdout, requests, upsets, price_vars, cex_vars, status_vars>>

\* What a run of get-cex-crypto-prices.py leaves alone.
non_price_vars == <<cex_vars, status_vars>>

\* What a run of get-cex-balances.py leaves alone.
non_cex_vars == <<upsets, price_vars, status_vars>>

\* What a run of get-web3-asset-status.py or get-asset-status.py leaves alone.
non_status_vars == <<price_vars, cex_vars>>

(***************************************************************************)
(* Bounds of the model.                                                    *)
(***************************************************************************)
\* At most this many upstream answers of one run differ from the nominal one.
MaxUpsets == 2

(***************************************************************************)
(* Python values.  Every value is a tagged record, so that None, numbers   *)
(* and strings can be compared with each other.                            *)
(***************************************************************************)
None == [t |-> "None"]
Num(v) == [t |-> "float", v |-> v]
\* float('nan'), what pandas stores for a missing number
NaN == [t |-> "nan"]
Str(s) == [t |-> "str", s |-> s]
\* f"{x:.<digits>f}" of a number
Fixed(v, digits) == [t |-> "fixed", v |-> v, digits |-> digits]

\* bool(x) of None or a number
Truthy(x) == x.t = "float" /\ x.v # 0

NoExc == [t |-> "NoExc"]

(***************************************************************************)
(* Python exception classes raised by the calls of a provider body, and    *)
(* the classes an except clause names.                                     *)
(***************************************************************************)
RequestExceptions == {"ConnectionError", "HTTPError", "JSONDecodeError"}
ValueErrors == {"ValueError", "JSONDecodeError"}
AllExceptions == RequestExceptions \cup ValueErrors \cup
                 {"KeyError", "IndexError", "TypeError", "AttributeError"}

\* What an HTTP request of a getter can yield: requests.get raises,
\* raise_for_status raises, response.json() raises, the subscripted field is
\* absent, or the field is there.
HttpOutcomes == {"conn_error", "http_error", "bad_json", "missing_field", "ok"}

\* The exception the body of a getter raises on an outcome ("" when none).
HttpRaises(o) ==
    CASE o = "conn_error"    -> "ConnectionError"
      [] o = "http_error"    -> "HTTPError"
      [] o = "bad_json"      -> "JSONDecodeError"
      [] o = "missing_field" -> "KeyError"
      [] OTHER               -> ""


\* One more upstream answer that is not the nominal one.
Upset(n) == upsets + n <= MaxUpsets /\ upsets' = upsets + n

Cost(o) == IF o = "ok" THEN 0 ELSE 1

EnvKeys == {"UPBIT_ACCESS_KEY", "UPBIT_SECRET_KEY", "KORBIT_ACCESS_KEY",
            "KORBIT_SECRET_KEY", "BITHUMB_ACCESS_KEY", "BITHUMB_SECRET_KEY"}

ExchangeNames == {"upbit", "korbit", "bithumb"}

(***************************************************************************)
(* get-cex-crypto-prices.py                                                *)
(***************************************************************************)
\* get_crypto_prices_df: tickers, in the order of the dict
tickers == <<
    [asset |-> "BTC", upbit |-> "KRW-BTC", korbit |-> "btc", binance |-> "BTC", okx |-> "BTC", bithumb |-> "BTC"],
    [asset |-> "SOL", upbit |-> "KRW-SOL", korbit |-> "sol", binance |-> "SOL", okx |-> "SOL", bithumb |-> "SOL"],
    [asset |-> "ETH", upbit |-> "KRW-ETH", korbit |-> "eth", binance |-> "ETH", okx |-> "ETH", bithumb |-> "ETH"],
    [asset |-> "FLR", upbit |-> "KRW-FLR", korbit |-> "flr", binance |-> "FLR", okx |-> "FLR", bithumb |-> "FLR"],
    [asset |-> "JUP", upbit |-> "KRW-JUP", korbit |-> "jup", binance |-> "JUP", okx |-> "JUP", bithumb |-> "JUP"] >>

\* The columns of one row of data, besides "Asset".
Columns == {"Upbit (KRW)", "Bithumb (KRW)", "Korbit (KRW)", "Binance (USDT)",
            "Binance (KRW)", "OKX (USDT)", "OKX (KRW)"}

\* The environment: the price an exchange quotes for the i-th asset when its
\* request succeeds (USDT on Binance and OKX, KRW on the others).
Quote(src, i) ==
    CASE src = "binance" -> i + 1
      [] src = "okx"     -> i + 2
      [] src = "upbit"   -> 1000 * i
      [] src = "korbit"  -> 1000 * i + 1
      [] OTHER           -> 1000 * i + 2

\* The environment: an answer of the KRW-USDT ticker of Upbit,
\* <<outcome, trade_price>>.
RateAnswers ==
    {<<o, 0>> : o \in HttpOutcomes \ {"ok"}} \cup {<<"ok", v>> : v \in {0, 1300, 1400}}

\* The rate requests made so far.
RateRequests == SelectSeq(requests, LAMBDA r : r.src = "rate")

\* The nominal answer of the rate source: what it answered last (1300 at first).
NominalRate ==
    IF RateRequests = <<>> THEN Num(1300) ELSE RateRequests[Len(RateRequests)].val

Line(text, arg) == [text |-> text, arg |-> arg]

\* One logged request of a price source.
Req(src, ticker, ok) == [src |-> src, ticker |-> ticker, ok |-> ok]

\* One logged request of the rate source, with the value get_exchange_rate returned.
RateReq(by, val) == [src |-> "rate", ticker |-> "KRW-USDT", ok |-> val # None, val |-> val, by |-> by]

\* The except clause of the getters of the price script: except Exception.
MutGetterCatches(class) == class \in RequestExceptions
GetterCatches(class) == class \in AllExceptions

\* try: <body raising e or yielding val> except Exception: print(line); return None
TryReturn(e, val, line) ==
    IF e = "" THEN [ret |-> val, raise |-> "", out |-> <<>>]
    ELSE IF GetterCatches(e) THEN [ret |-> None, raise |-> "", out |-> <<line>>]
    ELSE [ret |-> None, raise |-> e, out |-> <<>>]

get_upbit_price(ticker, o, v) ==
    TryReturn(HttpRaises(o), Num(v), Line("Error fetching Upbit price", ticker))

get_korbit_price(ticker, o, v) ==
    TryReturn(HttpRaises(o), Num(v), Line("Error fetching Korbit price", ticker))

get_bithumb_price(ticker, o, v) ==
    TryReturn(HttpRaises(o), Num(v), Line("Error fetching Bithumb price", ticker))

get_exchange_rate(a) ==
    TryReturn(HttpRaises(a[1]), Num(a[2]), Line("Error fetching exchange rate", ""))

get_exchange_rate_ex(o, v) ==
    TryReturn(HttpRaises(o), Num(v), Line("Error fetching USD to KRW exchange rate", ""))

\* The shared body with the rate requested before the USDT price, so also
\* when the USDT request fails.
MutUsdtAndKrw(ticker, o, v, a, line) ==
    LET e == HttpRaises(o)
        rate == get_exchange_rate(a)
    IN  IF e # ""
        THEN [ret |-> <<None, None>>, raise |-> IF GetterCatches(e) THEN "" ELSE e,
              out |-> IF GetterCatches(e) THEN <<line>> ELSE <<>>, rate |-> <<rate.ret>>]
        ELSE IF rate.raise # ""
        THEN [ret |-> <<None, None>>, raise |-> IF GetterCatches(rate.raise) THEN "" ELSE rate.raise,
              out |-> IF GetterCatches(rate.raise) THEN <<line>> ELSE <<>>, rate |-> <<None>>]
        ELSE [ret |-> <<Num(v), IF Truthy(rate.ret) THEN Num(v * rate.ret.v) ELSE None>>,
              raise |-> "", out |-> rate.out, rate |-> <<rate.ret>>]

\* The body shared by get_binance_price and get_okx_price: the USDT request, then
\* (only when it succeeded) a request of the rate, then the KRW price.
\* calls: the number of rate requests the call made.
UsdtAndKrw(ticker, o, v, a, line) ==
    LET e == HttpRaises(o)
        rate == get_exchange_rate(a)
    IN  IF e # ""
        THEN [ret |-> <<None, None>>, raise |-> IF GetterCatches(e) THEN "" ELSE e,
              out |-> IF GetterCatches(e) THEN <<line>> ELSE <<>>, rate |-> <<>>]
        ELSE IF rate.raise # ""
        THEN [ret |-> <<None, None>>, raise |-> IF GetterCatches(rate.raise) THEN "" ELSE rate.raise,
              out |-> IF GetterCatches(rate.raise) THEN <<line>> ELSE <<>>, rate |-> <<None>>]
        ELSE [ret |-> <<Num(v), IF Truthy(rate.ret) THEN Num(v * rate.ret.v) ELSE None>>,
              raise |-> "", out |-> rate.out, rate |-> <<rate.ret>>]

get_binance_price(ticker, o, v, a) ==
    UsdtAndKrw(ticker, o, v, a, Line("Error fetching Binance price", ticker))

get_okx_price(ticker, o, v, a) ==
    UsdtAndKrw(ticker, o, v, a, Line("Error fetching OKX price", ticker))


\* A script stops with an exception that nothing caught.
Crash(class, where) ==
    /\ exc' = [t |-> "exc", class |-> class, where |-> where]
    /\ pc' = "crashed"

\* 1 when a call that requested the rate got another answer than the nominal one.
RateCost(rates) == IF rates # <<>> /\ rates[1] # NominalRate THEN 1 ELSE 0

RateLog(by, rates) == IF rates = <<>> THEN <<>> ELSE <<RateReq(by, rates[1])>>

\* line 160: binance_usdt, binance_krw = get_binance_price(exchanges['binance'])
GetBinance ==
    /\ pc = "df_binance"
    /\ UNCHANGED non_price_vars
    /\ \E o \in HttpOutcomes, a \in RateAnswers :
         LET t == tickers[asset_i].binance
             r == get_binance_price(t, o, Quote("binance", asset_i), a)
         IN  /\ Upset(Cost(o) + RateCost(r.rate))
             /\ requests' = requests \o <<Req("binance", t, o = "ok")>> \o RateLog("binance", r.rate)
             /\ stdout' = stdout \o r.out
             /\ IF r.raise # ""
                THEN Crash(r.raise, "get_binance_price") /\ UNCHANGED binance
                ELSE binance' = r.ret /\ pc' = "df_rate" /\ UNCHANGED exc
    /\ UNCHANGED <<asset_i, data, exchange_rate, upbit_price, korbit_price, okx,
                   bithumb_price, df, main_rate>>

\* lines 161-162 without the test: exchange_rate = get_exchange_rate()
MutUpdateRate ==
    /\ pc = "df_rate"
    /\ UNCHANGED non_price_vars
    /\ \E a \in RateAnswers :
         LET r == get_exchange_rate(a)
         IN  /\ Upset(RateCost(<<r.ret>>))
             /\ requests' = requests \o <<RateReq("get_crypto_prices_df", r.ret)>>
             /\ stdout' = stdout \o r.out
             /\ IF r.raise # ""
                THEN Crash(r.raise, "get_exchange_rate") /\ UNCHANGED exchange_rate
                ELSE exchange_rate' = r.ret /\ pc' = "df_upbit" /\ UNCHANGED exc
    /\ UNCHANGED <<asset_i, data, binance, upbit_price, korbit_price, okx,
                   bithumb_price, df, main_rate>>

\* lines 161-162: if not exchange_rate: exchange_rate = get_exchange_rate()
UpdateRate ==
    /\ pc = "df_rate"
    /\ UNCHANGED non_price_vars
    /\ IF ~Truthy(exchange_rate)
       THEN \E a \in RateAnswers :
              LET r == get_exchange_rate(a)
              IN  /\ Upset(RateCost(<<r.ret>>))
                  /\ requests' = requests \o <<RateReq("get_crypto_prices_df", r.ret)>>
                  /\ stdout' = stdout \o r.out
                  /\ IF r.raise # ""
                     THEN Crash(r.raise, "get_exchange_rate") /\ UNCHANGED exchange_rate
                     ELSE exchange_rate' = r.ret /\ pc' = "df_upbit" /\ UNCHANGED exc
       ELSE /\ pc' = "df_upbit"
            /\ UNCHANGED <<exchange_rate, requests, stdout, upsets, exc>>
    /\ UNCHANGED <<asset_i, data, binance, upbit_price, korbit_price, okx,
                   bithumb_price, df, main_rate>>

\* line 164: upbit_price = get_upbit_price(exchanges['upbit'])
GetUpbit ==
    /\ pc = "df_upbit"
    /\ UNCHANGED non_price_vars
    /\ \E o \in HttpOutcomes :
         LET t == tickers[asset_i].upbit
             r == get_upbit_price(t, o, Quote("upbit", asset_i))
         IN  /\ Upset(Cost(o))
             /\ requests' = requests \o <<Req("upbit", t, o = "ok")>>
             /\ stdout' = stdout \o r.out
             /\ IF r.raise # ""
                THEN Crash(r.raise, "get_upbit_price") /\ UNCHANGED upbit_price
                ELSE upbit_price' = r.ret /\ pc' = "df_korbit" /\ UNCHANGED exc
    /\ UNCHANGED <<asset_i, data, exchange_rate, binance, korbit_price, okx,
                   bithumb_price, df, main_rate>>

\* line 166: korbit_price = get_korbit_price(exchanges['korbit'])
GetKorbit ==
    /\ pc = "df_korbit"
    /\ UNCHANGED non_price_vars
    /\ \E o \in HttpOutcomes :
         LET t == tickers[asset_i].korbit
             r == get_korbit_price(t, o, Quote("korbit", asset_i))
         IN  /\ Upset(Cost(o))
             /\ requests' = requests \o <<Req("korbit", t, o = "ok")>>
             /\ stdout' = stdout \o r.out
             /\ IF r.raise # ""
                THEN Crash(r.raise, "get_korbit_price") /\ UNCHANGED korbit_price
                ELSE korbit_price' = r.ret /\ pc' = "df_okx" /\ UNCHANGED exc
    /\ UNCHANGED <<asset_i, data, exchange_rate, binance, upbit_price, okx,
                   bithumb_price, df, main_rate>>

\* line 168: okx_usdt_price, okx_krw_price = get_okx_price(exchanges['okx'])
GetOkx ==
    /\ pc = "df_okx"
    /\ UNCHANGED non_price_vars
    /\ \E o \in HttpOutcomes, a \in RateAnswers :
         LET t == tickers[asset_i].okx
             r == get_okx_price(t, o, Quote("okx", asset_i), a)
         IN  /\ Upset(Cost(o) + RateCost(r.rate))
             /\ requests' = requests \o <<Req("okx", t, o = "ok")>> \o RateLog("okx", r.rate)
             /\ stdout' = stdout \o r.out
             /\ IF r.raise # ""
                THEN Crash(r.raise, "get_okx_price") /\ UNCHANGED okx
                ELSE okx' = r.ret /\ pc' = "df_bithumb" /\ UNCHANGED exc
    /\ UNCHANGED <<asset_i, data, exchange_rate, binance, upbit_price, korbit_price,
                   bithumb_price, df, main_rate>>

\* line 170: bithumb_price = get_bithumb_price(exchanges['bithumb'])
GetBithumb ==
    /\ pc = "df_bithumb"
    /\ UNCHANGED non_price_vars
    /\ \E o \in HttpOutcomes :
         LET t == tickers[asset_i].bithumb
             r == get_bithumb_price(t, o, Quote("bithumb", asset_i))
         IN  /\ Upset(Cost(o))
             /\ requests' = requests \o <<Req("bithumb", t, o = "ok")>>
             /\ stdout' = stdout \o r.out
             /\ IF r.raise # ""
                THEN Crash(r.raise, "get_bithumb_price") /\ UNCHANGED bithumb_price
                ELSE bithumb_price' = r.ret /\ pc' = "df_append" /\ UNCHANGED exc
    /\ UNCHANGED <<asset_i, data, exchange_rate, binance, upbit_price, korbit_price,
                   okx, df, main_rate>>

\* lines 173-182 and the loop header of line 159: append the row, then go on with the
\* next asset, or leave the loop and return (line 184) to main (line 190).
AppendRow ==
    /\ pc = "df_append"
    /\ UNCHANGED non_price_vars
    /\ data' = Append(data,
         [c \in Columns \cup {"Asset"} |->
             CASE c = "Asset"          -> Str(tickers[asset_i].asset)
               [] c = "Upbit (KRW)"    -> upbit_price
               [] c = "Bithumb (KRW)"  -> bithumb_price
               [] c = "Korbit (KRW)"   -> korbit_price
               [] c = "Binance (USDT)" -> binance[1]
               [] c = "Binance (KRW)"  -> binance[2]
               [] c = "OKX (USDT)"     -> okx[1]
               [] OTHER                -> okx[2]])
    /\ IF asset_i < Len(tickers)
       THEN asset_i' = asset_i + 1 /\ pc' = "df_binance" /\ UNCHANGED main_rate
       ELSE main_rate' = exchange_rate /\ pc' = "main_format" /\ UNCHANGED asset_i
    /\ UNCHANGED <<exc, stdout, requests, upsets, exchange_rate, binance, upbit_price,
                   korbit_price, okx, bithumb_price, df>>


\* pd.to_numeric(column, errors='coerce') of one cell: a missing value becomes NaN.
to_numeric(x) == IF x = None THEN NaN ELSE x

\* lambda x: f"{x:.<digits>f}" if x is not None else 'N/A'
FormatCell(x, digits) ==
    IF x # None
    THEN IF x = NaN THEN Str("nan") ELSE Fixed(x.v, digits)
    ELSE Str("N/A")

\* lines 193-203: every price column is converted and formatted (3 digits
\* for the USDT columns, 1 for the others), and the table is printed
FormatTable ==
    /\ pc = "main_format"
    /\ UNCHANGED non_price_vars
    /\ df' = [i \in DOMAIN data |->
                [c \in DOMAIN data[i] |->
                    IF c = "Asset" THEN data[i][c]
                    ELSE FormatCell(to_numeric(data[i][c]),
                                    IF c \in {"Binance (USDT)", "OKX (USDT)"} THEN 3 ELSE 1)]]
    /\ stdout' = Append(stdout, Line("table", ""))
    /\ pc' = "main_rate"
    /\ UNCHANGED <<exc, requests, upsets, asset_i, data, exchange_rate, binance,
                   upbit_price, korbit_price, okx, bithumb_price, main_rate>>

\* lines 206-209: print the KRW-USDT rate
ShowRate ==
    /\ pc = "main_rate"
    /\ UNCHANGED non_price_vars
    /\ stdout' = Append(stdout,
                   IF main_rate # None
                   THEN [text |-> "Current Exchange Rate (KRW to USDT)", arg |-> Fixed(main_rate.v, 2)]
                   ELSE Line("Failed to fetch exchange rate.", ""))
    /\ pc' = "main_rate_ex"
    /\ UNCHANGED <<exc, requests, upsets, price_vars>>

\* lines 212-216: fetch and print the USD-KRW rate
ShowRateEx ==
    /\ pc = "main_rate_ex"
    /\ UNCHANGED non_price_vars
    /\ \E o \in HttpOutcomes :
         LET r == get_exchange_rate_ex(o, 1350)
         IN  /\ Upset(Cost(o))
             /\ requests' = Append(requests, Req("exchangerate-api", "USD", o = "ok"))
             /\ IF r.raise # ""
                THEN Crash(r.raise, "get_exchange_rate_ex") /\ stdout' = stdout \o r.out
                                                           /\ UNCHANGED main_rate
                ELSE /\ main_rate' = r.ret
                     /\ stdout' = stdout \o r.out \o
                          <<IF r.ret # None
                            THEN [text |-> "Current Exchange Rate (KRW to USD)", arg |-> Fixed(r.ret.v, 2)]
                            ELSE Line("Failed to fetch exchange rate_ex.", "")>>
                     /\ pc' = "done"
                     /\ UNCHANGED exc
    /\ UNCHANGED <<asset_i, data, exchange_rate, binance, upbit_price, korbit_price,
                   okx, bithumb_price, df>>

\* The variables of the scripts that are not running keep their initial value.
PricesIdle ==
    /\ upsets = 0
    /\ asset_i = 1
    /\ data = <<>>
    /\ exchange_rate = None
    /\ binance = <<None, None>>
    /\ upbit_price = None
    /\ korbit_price = None
    /\ okx = <<None, None>>
    /\ bithumb_price = None
    /\ df = <<>>
    /\ main_rate = None

CexIdle ==
    /\ env = [k \in EnvKeys |-> None]
    /\ exchanges = <<>>
    /\ balances = None
    /\ non_zero_balances = None
    /\ detailed_price = [n \in ExchangeNames |-> None]
    /\ price = None

StatusIdle ==
    /\ script = "get-web3-asset-status"
    /\ debug = FALSE
    /\ checker = [eth_address |-> None, sol_address |-> None, flare_address |-> None]
    /\ balance = [b \in {"eth_balance", "sol_balance", "flare_balance",
                          "jup_balance", "jpl_balance", "wflr_balance"} |-> None]
    /\ prices = None
    /\ balance_data = <<>>
    /\ price_data = <<>>

InitPrices ==
    /\ pc = "df_binance"
    /\ exc = NoExc
    /\ stdout = <<>>
    /\ requests = <<>>
    /\ PricesIdle
    /\ CexIdle
    /\ StatusIdle

NextPrices ==
    \/ GetBinance
    \/ UpdateRate
    \/ GetUpbit
    \/ GetKorbit
    \/ GetOkx
    \/ GetBithumb
    \/ AppendRow
    \/ FormatTable
    \/ ShowRate
    \/ ShowRateEx

\* One run of get-cex-crypto-prices.py
SpecPrices == InitPrices /\ [][NextPrices]_vars


(***************************************************************************)
(* get-cex-balances.py: JSON values and the operations of the exchanges    *)
(***************************************************************************)
\* JSON values as Python sees them: None, Num, Str, NumStr (a string float()
\* parses), a list and a dict.
NumStr(v) == [t |-> "numstr", v |-> v]
JList(items) == [t |-> "list", items |-> items]
JDict(d) == [t |-> "dict", d |-> d]

\* "not x" of a JSON value
Falsy(x) ==
    \/ x = None
    \/ x.t = "float" /\ x.v = 0
    \/ x.t = "list" /\ x.items = <<>>
    \/ x.t = "dict" /\ DOMAIN x.d = {}
    \/ x.t = "str" /\ x.s = ""

\* The exception "key in x" raises ("" when none): int and None are not iterable.
InRaises(x) == IF x.t \in {"dict", "list", "str", "numstr"} THEN "" ELSE "TypeError"

\* key in x, for a string key, where it raises nothing
In(key, x) ==
    CASE x.t = "dict" -> key \in DOMAIN x.d
      [] x.t = "list" -> \E i \in DOMAIN x.items : x.items[i] = Str(key)
      [] x.t = "str"  -> x.s = key
      [] OTHER        -> FALSE

\* dict.get(key, 0)
DictGet(x, key) == IF key \in DOMAIN x.d THEN x.d[key] ELSE Num(0)

\* The exception float(x) raises ("" when none)
FloatRaises(x) ==
    CASE x.t \in {"float", "numstr"} -> ""
      [] x.t = "str"                 -> "ValueError"
      [] OTHER                       -> "TypeError"

\* The exception f"{x:,.1f}" raises ("" when none)
FormatRaises(x) ==
    CASE x.t = "float"             -> ""
      [] x.t \in {"str", "numstr"} -> "ValueError"
      [] OTHER                     -> "TypeError"

\* The first exception of a sequence of steps ("" when none raises)
RECURSIVE FirstRaise(_)
FirstRaise(es) ==
    IF es = <<>> THEN "" ELSE IF Head(es) # "" THEN Head(es) ELSE FirstRaise(Tail(es))

\* An HTTP response: requests.get raised, raise_for_status raised, response.json()
\* raised, or the body parsed to json.
Response(status, json) == [status |-> status, json |-> json]

\* One printed line of the balance script, with the exchange it is about.
CexLine(exch, text) == [exch |-> exch, text |-> text]

\* A call returns ret having printed out, or raises the exception class raise.
Ret(ret, out) == [ret |-> ret, raise |-> "", out |-> out]
Raise(class, out) == [ret |-> None, raise |-> class, out |-> out]

\* except (requests.RequestException, IndexError, KeyError, ValueError) of
\* UpbitExchange.get_detailed_price
UpbitDetailedCatches == RequestExceptions \cup ValueErrors \cup {"IndexError", "KeyError"}

\* except (requests.RequestException, KeyError, ValueError) of
\* KorbitExchange.get_detailed_price
KorbitDetailedCatches == RequestExceptions \cup ValueErrors \cup {"KeyError"}

\* The fields UpbitExchange.get_detailed_price reads, in the order it reads them.
UpbitFields == <<"market", "prev_closing_price", "opening_price", "trade_price",
                 "low_price", "high_price">>

\* UpbitExchange.get_detailed_price(ticker) on an HTTP response
UpbitDetailed(ticker, resp) ==
    LET who == "upbit"
        handled(e, out) ==
            IF e \in UpbitDetailedCatches
            THEN Ret(None, out \o <<CexLine(who, "Error fetching price information")>>)
            ELSE Raise(e, out)
        nodata == Ret(None, <<CexLine(who, "Error: No data found")>>)
        j == resp.json
    IN  IF HttpRaises(resp.status) # "" THEN handled(HttpRaises(resp.status), <<>>)
        ELSE IF Falsy(j) THEN nodata
        ELSE IF j.t = "dict" THEN handled("KeyError", <<>>)
        ELSE IF j.t # "list" THEN handled("TypeError", <<>>)
        ELSE LET first == j.items[1]
             IN  IF InRaises(first) # "" THEN handled(InRaises(first), <<>>)
                 ELSE IF ~In("trade_price", first) THEN nodata
                 ELSE IF first.t # "dict" THEN handled("TypeError", <<>>)
                 ELSE IF \E i \in DOMAIN UpbitFields : UpbitFields[i] \notin DOMAIN first.d
                 THEN handled("KeyError", <<>>)
                 ELSE LET price_info ==
                              [k \in {IF UpbitFields[i] = "trade_price" THEN "current_price"
                                      ELSE UpbitFields[i] : i \in DOMAIN UpbitFields} |->
                                  IF k = "current_price" THEN first.d["trade_price"] ELSE first.d[k]]
                          header == <<CexLine(who, "[Upbit] market")>>
                          e == FirstRaise([i \in 1..5 |->
                                   FormatRaises(first.d[UpbitFields[i + 1]])])
                      IN  IF e # "" THEN handled(e, header)
                          ELSE Ret(JDict(price_info), header \o <<CexLine(who, "prices")>>)

\* The fields KorbitExchange.get_detailed_price converts with float(), in order.
KorbitFields == <<"prev_close", "open", "last", "low", "high", "volume">>

KorbitInfoKey(f) ==
    CASE f = "prev_close" -> "prev_closing_price"
      [] f = "open"       -> "opening_price"
      [] f = "last"       -> "current_price"
      [] f = "low"        -> "low_price"
      [] f = "high"       -> "high_price"
      [] OTHER            -> "volume"

\* ticker.upper() == 'KRW'
IsKRW(ticker) == ticker \in {"KRW", "KRw", "KrW", "Krw", "kRW", "kRw", "krW", "krw"}

\* KorbitExchange.get_detailed_price(ticker) on an HTTP response
KorbitDetailed(ticker, resp) ==
    LET who == "korbit"
        handled(e) ==
            IF e \in KorbitDetailedCatches
            THEN Ret(None, <<CexLine(who, "Error fetching price information")>>)
            ELSE Raise(e, <<>>)
        nodata == Ret(None, <<CexLine(who, "Error: No data found")>>)
        j == resp.json
    IN  IF IsKRW(ticker) THEN Ret(None, <<>>)
        ELSE IF HttpRaises(resp.status) # "" THEN handled(HttpRaises(resp.status))
        ELSE IF Falsy(j) THEN nodata
        ELSE IF InRaises(j) # "" THEN handled(InRaises(j))
        ELSE IF ~In("last", j) THEN nodata
        ELSE IF j.t # "dict" THEN handled("AttributeError")
        ELSE LET ts == DictGet(j, "timestamp")
                 e == FirstRaise(<<IF ts.t = "float" THEN "" ELSE "TypeError">> \o
                          [i \in DOMAIN KorbitFields |-> FloatRaises(DictGet(j, KorbitFields[i]))])
                 price_info ==
                     [k \in {KorbitInfoKey(KorbitFields[i]) : i \in DOMAIN KorbitFields}
                            \cup {"market", "timestamp"} |->
                         CASE k = "market"    -> Str(ticker)
                           [] k = "timestamp" -> ts
                           [] OTHER -> Num(DictGet(j, CHOOSE f \in {KorbitFields[i] : i \in DOMAIN KorbitFields} :
                                                        KorbitInfoKey(f) = k).v)]
             IN  IF e # "" THEN handled(e)
                 ELSE Ret(JDict(price_info), <<CexLine(who, "[Korbit] market"), CexLine(who, "prices")>>)

\* BithumbExchange.get_detailed_price(ticker): ohlcv is what pybithumb.get_ohlcv
\* yields ("raise", None, or a list of day rows), current what
\* pybithumb.get_current_price yields ("raise", None or a number).
BithumbDetailed(ticker, ohlcv, current) ==
    LET who == "bithumb"
        handled == Ret(None, <<CexLine(who, "Error fetching price information")>>)
    IN  IF IsKRW(ticker) THEN Ret(None, <<>>)
        ELSE IF ohlcv = Str("raise") THEN handled
        ELSE IF ohlcv = None \/ ohlcv.items = <<>>
        THEN Ret(None, <<CexLine(who, "Error: No OHLCV data found")>>)
        ELSE IF current = Str("raise") THEN handled
        ELSE IF current = None
        THEN Ret(None, <<CexLine(who, "Error: No current price found")>>)
        ELSE LET n == Len(ohlcv.items)
                 yesterday == IF n >= 2 THEN ohlcv.items[n - 1] ELSE ohlcv.items[n]
                 today == ohlcv.items[n]
                 price_info ==
                     [market |-> Str(ticker),
                      prev_closing_price |-> Num(yesterday.close),
                      opening_price |-> Num(today.open),
                      current_price |-> Num(current.v),
                      low_price |-> Num(today.low),
                      high_price |-> Num(today.high),
                      volume |-> Num(today.volume),
                      timestamp |-> Num(today.name)]
             IN  Ret(JDict(price_info), <<CexLine(who, "[Bithumb] market"), CexLine(who, "prices")>>)

\* UpbitExchange.get_balances / KorbitExchange.get_balances: b is what
\* self.client.get_balances() yields, Str("raise") when it raises.
ClientBalances(who, b) ==
    IF b = Str("raise") THEN Ret(None, <<CexLine(who, "Error fetching balances")>>)
    ELSE IF Falsy(b) THEN Ret(None, <<CexLine(who, "Error: No balances retrieved")>>)
    ELSE Ret(b, <<>>)

UpbitBalances(b) == ClientBalances("upbit", b)

KorbitBalances(b) == ClientBalances("korbit", b)

\* BithumbExchange.get_balances: b is what self.client.get_balance('ALL') yields;
\* a balance_info tuple is a JList.
BithumbBalances(b) ==
    LET who == "bithumb"
        handled == Ret(None, <<CexLine(who, "Error fetching balances")>>)
        tuples == {c \in DOMAIN b.d : b.d[c].t = "list" /\ Len(b.d[c].items) >= 3}
    IN  IF b = Str("raise") THEN handled
        ELSE IF Falsy(b) THEN Ret(None, <<CexLine(who, "Error: No balances retrieved")>>)
        ELSE IF b.t # "dict" THEN handled
        ELSE IF \E c \in tuples : \E i \in 1..3 : FloatRaises(b.d[c].items[i]) # "" THEN handled
        ELSE Ret(JDict([c \in tuples |->
                          JDict([total |-> Num(b.d[c].items[1].v),
                                 in_use |-> Num(b.d[c].items[2].v),
                                 available |-> Num(b.d[c].items[3].v)])]), <<>>)

\* UpbitExchange.get_current_price with the test ticker == 'KRW'
MutUpbitCurrentPrice(ticker, r) ==
    IF ticker = "KRW" THEN [calls |-> 0] @@ Ret(Num(1), <<>>)
    ELSE [calls |-> 1] @@
         (IF r = Str("raise") THEN Ret(None, <<CexLine("upbit", "Error retrieving price")>>)
          ELSE Ret(r, <<>>))

\* UpbitExchange.get_current_price: r is what pyupbit.get_current_price yields;
\* calls is the number of calls of the library
UpbitCurrentPrice(ticker, r) ==
    IF IsKRW(ticker) THEN [calls |-> 0] @@ Ret(Num(1), <<>>)
    ELSE [calls |-> 1] @@
         (IF r = Str("raise") THEN Ret(None, <<CexLine("upbit", "Error retrieving price")>>)
          ELSE Ret(r, <<>>))

\* KorbitExchange.get_current_price: r is what pykorbit.get_current_price yields
KorbitCurrentPrice(ticker, r) ==
    IF IsKRW(ticker) THEN [calls |-> 0] @@ Ret(Num(1), <<>>)
    ELSE [calls |-> 1] @@
         (IF r = Str("raise") THEN Ret(None, <<CexLine("korbit", "Error retrieving price")>>)
          ELSE IF r = None THEN Ret(Num(0), <<>>)
          ELSE Ret(r, <<>>))

\* BithumbExchange.get_current_price: r is what pybithumb.get_current_price yields
BithumbCurrentPrice(ticker, r) ==
    IF IsKRW(ticker) THEN [calls |-> 0] @@ Ret(Num(1), <<>>)
    ELSE [calls |-> 1] @@
         (IF r = Str("raise") THEN Ret(None, <<CexLine("bithumb", "Error retrieving price")>>)
          ELSE IF r = None THEN Ret(Num(0), <<>>)
          ELSE IF FloatRaises(r) # "" THEN Ret(None, <<CexLine("bithumb", "Error retrieving price")>>)
          ELSE Ret(Num(r.v), <<>>))

(***************************************************************************)
(* get-cex-balances.py: ExchangeManager                                    *)
(***************************************************************************)
\* bool(s) of what os.getenv yields: None and "" are false
Present(s) == s # None /\ s.s # ""

\* "if access and secret" of create_default_manager
MutConfigured(access, secret) == Present(access) \/ Present(secret)
Configured(access, secret) == Present(access) /\ Present(secret)

Exchange(class, access_key, secret_key) ==
    [class |-> class, access_key |-> access_key, secret_key |-> secret_key]

\* ExchangeManager.add_exchange: self.exchanges[name] = exchange
add_exchange(exs, name, exchange) ==
    IF \E i \in DOMAIN exs : exs[i].name = name
    THEN [i \in DOMAIN exs |-> IF exs[i].name = name THEN [name |-> name, exchange |-> exchange] ELSE exs[i]]
    ELSE Append(exs, [name |-> name, exchange |-> exchange])

\* ExchangeManager.get_exchange: self.exchanges.get(name)
get_exchange(name) ==
    IF \E i \in DOMAIN exchanges : exchanges[i].name = name
    THEN exchanges[CHOOSE i \in DOMAIN exchanges : exchanges[i].name = name].exchange
    ELSE None

\* One "Initialize ..." block of create_default_manager
Initialize(exs, name, class, access, secret) ==
    IF Configured(env[access], env[secret])
    THEN add_exchange(exs, name, Exchange(class, env[access], env[secret]))
    ELSE exs

\* ExchangeManager.create_default_manager
create_default_manager ==
    Initialize(
        Initialize(
            Initialize(<<>>, "upbit", "UpbitExchange", "UPBIT_ACCESS_KEY", "UPBIT_SECRET_KEY"),
            "korbit", "KorbitExchange", "KORBIT_ACCESS_KEY", "KORBIT_SECRET_KEY"),
        "bithumb", "BithumbExchange", "BITHUMB_ACCESS_KEY", "BITHUMB_SECRET_KEY")

(***************************************************************************)
(* get-cex-balances.py: what the exchanges and their client libraries may  *)
(* answer                                                                  *)
(***************************************************************************)

\* self.client.get_balances() of pyupbit: raises, nothing, or a list of balances
UpbitClientBalances ==
    {Str("raise"), None, JList(<<>>),
     JList(<<JDict([currency |-> Str("KRW"), balance |-> NumStr(1000)])>>)}

KorbitInfo(available, in_use) ==
    JDict([available |-> available, trade_in_use |-> in_use, withdrawal_in_use |-> NumStr(0)])

\* self.client.get_balances() of pykorbit: raises, nothing, a dict of balance_info
\* dicts (one with a null amount), or an error object
KorbitClientBalances ==
    {Str("raise"), None, JDict([c \in {} |-> None]),
     JDict([krw |-> KorbitInfo(NumStr(1000), NumStr(0)), btc |-> KorbitInfo(NumStr(0), NumStr(0))]),
     JDict([krw |-> KorbitInfo(NumStr(0), NumStr(2)), btc |-> KorbitInfo(None, NumStr(0))]),
     JDict([error |-> Str("unauthorized")])}

\* self.client.get_balance('ALL') of pybithumb: raises, nothing, a dict of
\* tuples (one with a null amount), or something that is not a dict
BithumbClientBalances ==
    {Str("raise"), None,
     JDict([BTC |-> JList(<<Num(1), Num(0), Num(1)>>), KRW |-> JList(<<Num(0), Num(0), Num(0)>>)]),
     JDict([BTC |-> JList(<<None, Num(0), Num(1)>>)]),
     JList(<<Num(5)>>)}

\* pyupbit / pykorbit / pybithumb get_current_price: raises, nothing, or a price
CurrentPrices == {Str("raise"), None, Num(101)}

FullUpbitTicker ==
    [market |-> Str("KRW-BTC"), prev_closing_price |-> Num(99), opening_price |-> Num(100),
     trade_price |-> Num(101), low_price |-> Num(98), high_price |-> Num(102)]

\* d without key k
Without(d, k) == [x \in DOMAIN d \ {k} |-> d[x]]

\* GET https://api.upbit.com/v1/ticker
UpbitResponses ==
    {Response(o, None) : o \in {"conn_error", "http_error", "bad_json"}} \cup
    {Response("ok", j) : j \in
        {None, JList(<<>>), JDict([error |-> Str("not found")]), JList(<<Num(5)>>),
         JList(<<JDict(FullUpbitTicker)>>),
         JList(<<JDict(Without(FullUpbitTicker, "trade_price"))>>),
         JList(<<JDict(Without(FullUpbitTicker, "low_price"))>>),
         JList(<<JDict([FullUpbitTicker EXCEPT !.low_price = None])>>)}}

FullKorbitTicker ==
    [timestamp |-> Num(1000), last |-> NumStr(101), open |-> NumStr(100),
     low |-> NumStr(98), high |-> NumStr(102), volume |-> NumStr(5)]

\* GET https://api.korbit.co.kr/v1/ticker/detailed
KorbitResponses ==
    {Response(o, None) : o \in {"conn_error", "http_error", "bad_json"}} \cup
    {Response("ok", j) : j \in
        {None, JList(<<>>), Num(5),
         JDict(FullKorbitTicker),
         JDict(Without(FullKorbitTicker, "last")),
         JDict(Without(FullKorbitTicker, "timestamp")),
         JDict([FullKorbitTicker EXCEPT !.low = Str("n/a")]),
         JDict([FullKorbitTicker EXCEPT !.low = None]),
         JDict([FullKorbitTicker EXCEPT !.timestamp = NumStr(1000)])}}

Day(name, close) ==
    [name |-> name, open |-> 100, high |-> 102, low |-> 98, close |-> close, volume |-> 5]

\* pybithumb.get_ohlcv: raises, nothing, an empty frame, or a frame of days
BithumbOhlcv ==
    {Str("raise"), None, JList(<<>>), JList(<<Day(2, 101)>>), JList(<<Day(1, 99), Day(2, 101)>>)}

(***************************************************************************)
(* get-cex-balances.py: main                                               *)
(***************************************************************************)
\* The exception the condition of lines 378-380 raises on one balance_info
\* ("" when none); "or" stops at the first amount above zero.
RECURSIVE AmountsRaise(_, _)
AmountsRaise(info, fields) ==
    IF fields = <<>> THEN ""
    ELSE LET a == DictGet(info, Head(fields))
         IN  IF FloatRaises(a) # "" THEN FloatRaises(a)
             ELSE IF a.v > 0 THEN ""
             ELSE AmountsRaise(info, Tail(fields))

KorbitAmounts == <<"available", "trade_in_use", "withdrawal_in_use">>

InfoRaises(info) ==
    IF info.t # "dict" THEN "AttributeError" ELSE AmountsRaise(info, KorbitAmounts)

\* lines 376-381: the dict comprehension over balances.items()
NonZeroBalances(b) ==
    IF b = None \/ b.t # "dict" THEN Raise("AttributeError", <<>>)
    ELSE IF \E c \in DOMAIN b.d : InfoRaises(b.d[c]) # ""
    THEN Raise(InfoRaises(b.d[CHOOSE c \in DOMAIN b.d : InfoRaises(b.d[c]) # ""]), <<>>)
    ELSE Ret(JDict([c \in {x \in DOMAIN b.d :
                              \E i \in DOMAIN KorbitAmounts :
                                  DictGet(b.d[x], KorbitAmounts[i]).v > 0} |-> b.d[c]]), <<>>)

\* line 352: manager = ExchangeManager.create_default_manager()
CreateManager ==
    /\ pc = "cex_start"
    /\ exchanges' = create_default_manager
    /\ pc' = "upbit"
    /\ UNCHANGED <<exc, stdout, requests, env, balances, non_zero_balances, detailed_price, price>>
    /\ UNCHANGED non_cex_vars

\* lines 355-356, 371-372, 395-396: get_exchange(name) yields nothing, the block is skipped
SkipExchange(name, next) ==
    /\ pc = name
    /\ get_exchange(name) = None
    /\ pc' = next
    /\ UNCHANGED <<exc, stdout, requests, cex_vars>>
    /\ UNCHANGED non_cex_vars

\* One call of an operation of an exchange from main: r is what it did.  The
\* call is logged, what it printed is printed; an exception it raises leaves main.
CallFrom(name, op, r, ok) ==
    /\ requests' = Append(requests, Req(name, op, ok))
    /\ IF r.raise # ""
       THEN Crash(r.raise, op) /\ stdout' = stdout \o r.out
       ELSE UNCHANGED exc

\* lines 357-359: balances = upbit.get_balances(), printed
UpbitGetBalances ==
    /\ pc = "upbit"
    /\ get_exchange("upbit") # None
    /\ \E b \in UpbitClientBalances :
         LET r == UpbitBalances(b)
         IN  /\ CallFrom("upbit", "get_balances", r, r.ret # None)
             /\ balances' = r.ret
             /\ stdout' = stdout \o r.out \o <<CexLine("upbit", "[Upbit balances]")>>
             /\ pc' = "upbit_detailed"
    /\ UNCHANGED <<env, exchanges, non_zero_balances, detailed_price, price>>
    /\ UNCHANGED non_cex_vars

\* line 362: upbit_detailed_price = upbit.get_detailed_price("BTC")
UpbitGetDetailed ==
    /\ pc = "upbit_detailed"
    /\ \E resp \in UpbitResponses :
         LET r == UpbitDetailed("BTC", resp)
         IN  /\ CallFrom("upbit", "UpbitExchange.get_detailed_price", r, r.ret # None)
             /\ IF r.raise = ""
                THEN /\ detailed_price' = [detailed_price EXCEPT !["upbit"] = r.ret]
                     /\ stdout' = stdout \o r.out
                     /\ pc' = "upbit_price"
                ELSE UNCHANGED detailed_price
    /\ UNCHANGED <<env, exchanges, balances, non_zero_balances, price>>
    /\ UNCHANGED non_cex_vars

\* lines 365-367: price = upbit.get_current_price("BTC"), printed
UpbitGetPrice ==
    /\ pc = "upbit_price"
    /\ \E p \in CurrentPrices :
         LET r == UpbitCurrentPrice("BTC", p)
         IN  /\ CallFrom("upbit", "get_current_price", r, r.ret # None)
             /\ price' = r.ret
             /\ stdout' = stdout \o r.out \o <<CexLine("upbit", "Upbit, BTC price")>>
             /\ pc' = "korbit"
    /\ UNCHANGED <<env, exchanges, balances, non_zero_balances, detailed_price>>
    /\ UNCHANGED non_cex_vars

\* line 373: balances = korbit.get_balances()
KorbitGetBalances ==
    /\ pc = "korbit"
    /\ get_exchange("korbit") # None
    /\ \E b \in KorbitClientBalances :
         LET r == KorbitBalances(b)
         IN  /\ CallFrom("korbit", "get_balances", r, r.ret # None)
             /\ balances' = r.ret
             /\ stdout' = stdout \o r.out
             /\ pc' = "korbit_filter"
    /\ UNCHANGED <<env, exchanges, non_zero_balances, detailed_price, price>>
    /\ UNCHANGED non_cex_vars

\* lines 376-383: the balances above zero, printed
KorbitFilter ==
    /\ pc = "korbit_filter"
    /\ LET r == NonZeroBalances(balances)
       IN  IF r.raise # ""
           THEN Crash(r.raise, "main") /\ UNCHANGED <<non_zero_balances, stdout>>
           ELSE /\ non_zero_balances' = r.ret
                /\ stdout' = Append(stdout, CexLine("korbit", "[Korbit balances]"))
                /\ pc' = "korbit_detailed"
                /\ UNCHANGED exc
    /\ UNCHANGED <<requests, env, exchanges, balances, detailed_price, price>>
    /\ UNCHANGED non_cex_vars

\* line 386: korbit_detailed_price = korbit.get_detailed_price("BTC")
KorbitGetDetailed ==
    /\ pc = "korbit_detailed"
    /\ \E resp \in KorbitResponses :
         LET r == KorbitDetailed("BTC", resp)
         IN  /\ CallFrom("korbit", "KorbitExchange.get_detailed_price", r, r.ret # None)
             /\ IF r.raise = ""
                THEN /\ detailed_price' = [detailed_price EXCEPT !["korbit"] = r.ret]
                     /\ stdout' = stdout \o r.out
                     /\ pc' = "korbit_price"
                ELSE UNCHANGED detailed_price
    /\ UNCHANGED <<env, exchanges, balances, non_zero_balances, price>>
    /\ UNCHANGED non_cex_vars

\* lines 389-391: price = korbit.get_current_price("BTC"), printed
KorbitGetPrice ==
    /\ pc = "korbit_price"
    /\ \E p \in CurrentPrices :
         LET r == KorbitCurrentPrice("BTC", p)
         IN  /\ CallFrom("korbit", "get_current_price", r, r.ret # None)
             /\ price' = r.ret
             /\ stdout' = stdout \o r.out \o <<CexLine("korbit", "Korbit, BTC price")>>
             /\ pc' = "bithumb"
    /\ UNCHANGED <<env, exchanges, balances, non_zero_balances, detailed_price>>
    /\ UNCHANGED non_cex_vars

\* lines 397-399: balances = bithumb.get_balances(), printed
BithumbGetBalances ==
    /\ pc = "bithumb"
    /\ get_exchange("bithumb") # None
    /\ \E b \in BithumbClientBalances :
         LET r == BithumbBalances(b)
         IN  /\ CallFrom("bithumb", "get_balances", r, r.ret # None)
             /\ balances' = r.ret
             /\ stdout' = stdout \o r.out \o <<CexLine("bithumb", "[Bithumb balances]")>>
             /\ pc' = "bithumb_detailed"
    /\ UNCHANGED <<env, exchanges, non_zero_balances, detailed_price, price>>
    /\ UNCHANGED non_cex_vars

\* line 401: bithumb_detailed_price = bithumb.get_detailed_price("BTC")
BithumbGetDetailed ==
    /\ pc = "bithumb_detailed"
    /\ \E o \in BithumbOhlcv, c \in CurrentPrices :
         LET r == BithumbDetailed("BTC", o, c)
         IN  /\ CallFrom("bithumb", "BithumbExchange.get_detailed_price", r, r.ret # None)
             /\ detailed_price' = [detailed_price EXCEPT !["bithumb"] = r.ret]
             /\ stdout' = stdout \o r.out
             /\ pc' = "bithumb_price"
    /\ UNCHANGED <<env, exchanges, balances, non_zero_balances, price>>
    /\ UNCHANGED non_cex_vars

\* lines 404-407: price = bithumb.get_current_price("FLR"), printed
BithumbGetPrice ==
    /\ pc = "bithumb_price"
    /\ \E p \in CurrentPrices :
         LET r == BithumbCurrentPrice("FLR", p)
         IN  /\ CallFrom("bithumb", "get_current_price", r, r.ret # None)
             /\ price' = r.ret
             /\ stdout' = stdout \o r.out \o <<CexLine("bithumb", "Bithumb, FLR price")>>
             /\ pc' = "done"
    /\ UNCHANGED <<env, exchanges, balances, non_zero_balances, detailed_price>>
    /\ UNCHANGED non_cex_vars

InitCex ==
    /\ pc = "cex_start"
    /\ exc = NoExc
    /\ stdout = <<>>
    /\ requests = <<>>
    /\ PricesIdle
    /\ env \in [EnvKeys -> {None, Str(""), Str("key")}]
    /\ exchanges = <<>>
    /\ balances = None
    /\ non_zero_balances = None
    /\ detailed_price = [n \in ExchangeNames |-> None]
    /\ price = None
    /\ StatusIdle

NextCex ==
    \/ CreateManager
    \/ SkipExchange("upbit", "korbit")
    \/ UpbitGetBalances
    \/ UpbitGetDetailed
    \/ UpbitGetPrice
    \/ SkipExchange("korbit", "bithumb")
    \/ KorbitGetBalances
    \/ KorbitFilter
    \/ KorbitGetDetailed
    \/ KorbitGetPrice
    \/ SkipExchange("bithumb", "done")
    \/ BithumbGetBalances
    \/ BithumbGetDetailed
    \/ BithumbGetPrice

\* One run of get-cex-balances.py
SpecCex == InitCex /\ [][NextCex]_vars

(***************************************************************************)
(* get-web3-asset-status.py and get-asset-status.py                        *)
(*                                                                         *)
(* Numbers.  A balance or a price is the float raw / 10 ** decimals, kept  *)
(* as the pair (raw, decimals) with trailing zeros removed, so that equal  *)
(* floats are equal values (0 == 0.0 == 0 / 10 ** 6).                      *)
(***************************************************************************)
RECURSIVE Pow10(_)
Pow10(k) == IF k = 0 THEN 1 ELSE 10 * Pow10(k - 1)

RECURSIVE Div10(_, _)
\* float(raw) / 10 ** decimals
Div10(raw, decimals) ==
    IF raw = 0 THEN [t |-> "number", raw |-> 0, decimals |-> 0]
    ELSE IF decimals > 0 /\ raw % 10 = 0 THEN Div10(raw \div 10, decimals - 1)
    ELSE [t |-> "number", raw |-> raw, decimals |-> decimals]

\* An integer of the chain's base units, m * 10 ** e (wei amounts do not fit
\* the integers of the model checker).
Big(m, e) == [t |-> "int", m |-> m, e |-> e]

\* float(n) / 10 ** decimals
Units(n, decimals) ==
    IF n.e >= decimals THEN Div10(n.m * Pow10(n.e - decimals), 0)
    ELSE Div10(n.m, decimals - n.e)

\* return 0 / return 0.0
Zero == Div10(0, 0)

RECURSIVE RoundShift(_, _, _)
\* n / 10 ** k rounded to the nearest integer (n >= 0, k >= 1); sticky says
\* that a non-zero digit was already dropped.  A tie goes to the even
\* neighbour, as the format does for a float that is exactly the tie.
RoundShift(n, k, sticky) ==
    IF k = 1
    THEN LET q == n \div 10
             r == n % 10
         IN IF r > 5 \/ (r = 5 /\ (sticky \/ q % 2 = 1)) THEN q + 1 ELSE q
    ELSE RoundShift(n \div 10, k - 1, sticky \/ n % 10 # 0)

\* f"{x:.<digits>f}" and f"{x:,.<digits>f}": the sign, and the digits as the
\* integer round(|x| * 10 ** digits)
FormatF(x, digits) ==
    LET abs == IF x.raw < 0 THEN 0 - x.raw ELSE x.raw
    IN  [t |-> "fixed", neg |-> x.raw < 0, digits |-> digits,
         v |-> IF x.decimals <= digits THEN abs * Pow10(digits - x.decimals)
               ELSE RoundShift(abs, x.decimals - digits, FALSE)]

\* f"${x:,.2f}", f"${x:.4f}"
Dollars(x, digits) == [t |-> "dollars", n |-> FormatF(x, digits)]

(***************************************************************************)
(* CryptoBalanceChecker.  Each getter is a function of the configured      *)
(* address and of the answer a of the node; it yields the returned value,  *)
(* the exception that leaves it ("" when none), the lines it prints and    *)
(* the calls it sent to the node.                                          *)
(***************************************************************************)
\* Exception: the built-in classes and those the chain clients raise.
Exception ==
    AllExceptions \cup {"SolanaRpcException", "InvalidAddress", "ContractLogicError"}

\* A call sent to a node or to the price API: what it asks about, the outcome
\* o it had, and the value it was answered with when o is "ok".
Call(chain, method, arg, o, value) ==
    [chain |-> chain, method |-> method, arg |-> arg, o |-> o,
     value |-> IF o = "ok" THEN value ELSE None]

\* w3.is_connected()
Ping(chain, connected) ==
    Call(chain, "is_connected", None, IF connected THEN "ok" ELSE "unreachable", None)

\* __init__: the token mints and their decimals
jup_token_address == "JUPyiwrYJFskUPiHa7hkeR8VUtAeFoSYbKedZNsDvCN"

jpl_token_address == "JPLxvNvzWzUZXmJ6YkkRAFSYZs9dKpPqWpeEGrskKYs"

jup_decimals == 6

jpl_decimals == 6

\* Pubkey.from_string and the address validation of web3 fail on None and
\* on a string that is no address.
ValidAddress(a) == a.t = "str" /\ a.s # ""

\* The class they raise on such an address.
AddressError(a) == IF a = None THEN "TypeError" ELSE "ValueError"

\* except Exception as e
BalanceCatches(class) == class \in Exception

\* return val, with the calls made
Got(val, calls) == [ret |-> val, raise |-> "", out |-> <<>>, calls |-> calls]

\* except Exception as e: print(f"<text>: {e}"); return 0
Failed(class, text, calls) ==
    IF BalanceCatches(class)
    THEN [ret |-> Zero, raise |-> "", out |-> <<Line(text, class)>>, calls |-> calls]
    ELSE [ret |-> None, raise |-> class, out |-> <<>>, calls |-> calls]

\* get_eth_balance and get_flare_balance; a = [connected, o, wei]
NativeBalance(chain, warning, text, address, a) ==
    LET ping == Ping(chain, a.connected)
        ask(o) == Call(chain, "get_balance", address, o, a.wei)
    IN  IF ~a.connected
        THEN [ret |-> Zero, raise |-> "", out |-> <<Line(warning, None)>>,
              calls |-> <<ping>>]
        ELSE IF ~ValidAddress(address) THEN Failed("InvalidAddress", text, <<ping>>)
        ELSE IF a.o = "raise" THEN Failed("ConnectionError", text, <<ping, ask("raise")>>)
        \* from_wei raises ValueError on a value below 0
        ELSE IF a.wei.m < 0 THEN Failed("ValueError", text, <<ping, ask("ok")>>)
        ELSE Got(Units(a.wei, 18), <<ping, ask("ok")>>)

get_eth_balance(address, a) ==
    NativeBalance("ethereum", "Warning: Cannot connect to Ethereum node",
                  "Error getting ETH balance", address, a)

get_flare_balance(address, a) ==
    NativeBalance("flare", "Warning: Cannot connect to Flare node",
                  "Error getting Flare balance", address, a)

\* get_sol_balance dividing the lamports by the 10 ** 18 of the wei
MutGetSolBalance(address, a) ==
    LET text == "Error getting SOL balance"
        ask == Call("solana", "get_balance", address, a.o, a.lamports)
    IN  IF ~ValidAddress(address) THEN Failed(AddressError(address), text, <<>>)
        ELSE IF a.o = "raise" THEN Failed("SolanaRpcException", text, <<ask>>)
        ELSE IF a.o = "no_value" THEN Failed("AttributeError", text, <<ask>>)
        ELSE Got(Units(a.lamports, 18), <<ask>>)

\* a = [o, lamports]
get_sol_balance(address, a) ==
    LET text == "Error getting SOL balance"
        ask == Call("solana", "get_balance", address, a.o, a.lamports)
    IN  IF ~ValidAddress(address) THEN Failed(AddressError(address), text, <<>>)
        ELSE IF a.o = "raise" THEN Failed("SolanaRpcException", text, <<ask>>)
        ELSE IF a.o = "no_value" THEN Failed("AttributeError", text, <<ask>>)
        ELSE Got(Units(a.lamports, 9), <<ask>>)

\* float(response.value.amount) / (10 ** decimals)
TokenAmount(amount, decimals, text, calls) ==
    IF FloatRaises(amount) # "" THEN Failed(FloatRaises(amount), text, calls)
    ELSE Got(Units(amount.v, decimals), calls)

\* a = [o, amount]
get_jup_balance(address, a) ==
    LET text == "Error getting JUP balance"
        ask == Call("solana", "get_token_account_balance", jup_token_address, a.o, a.amount)
    IN  IF ~ValidAddress(address) THEN Failed(AddressError(address), text, <<>>)
        ELSE IF a.o \in {"not_found", "raise"}
             THEN Failed("SolanaRpcException", text, <<ask>>)
        ELSE IF a.o = "no_value" THEN Failed("AttributeError", text, <<ask>>)
        ELSE IF a.o = "null" THEN Got(Zero, <<ask>>)
        ELSE TokenAmount(a.amount, jup_decimals, text, <<ask>>)

\* get_jpl_balance dividing by the 10 ** 9 of the lamports
MutGetJplBalance(address, a) ==
    LET text == "Error getting JPL balance"
        ask == Call("solana", "get_token_account_balance", jpl_token_address, a.o, a.amount)
    IN  IF ~ValidAddress(address) THEN Failed(AddressError(address), text, <<>>)
        ELSE IF a.o = "not_found"
             THEN [ret |-> Zero, raise |-> "", calls |-> <<ask>>,
                   out |-> <<Line("No JPL token account found - this is normal if you've never held JPL", None)>>]
        ELSE IF a.o = "raise" THEN Failed("SolanaRpcException", text, <<ask>>)
        ELSE IF a.o \in {"no_value", "null"} THEN Got(Zero, <<ask>>)
        ELSE TokenAmount(a.amount, 9, text, <<ask>>)

\* a = [o, amount]
get_jpl_balance(address, a) ==
    LET text == "Error getting JPL balance"
        ask == Call("solana", "get_token_account_balance", jpl_token_address, a.o, a.amount)
    IN  IF ~ValidAddress(address) THEN Failed(AddressError(address), text, <<>>)
        ELSE IF a.o = "not_found"
             THEN [ret |-> Zero, raise |-> "", calls |-> <<ask>>,
                   out |-> <<Line("No JPL token account found - this is normal if you've never held JPL", None)>>]
        ELSE IF a.o = "raise" THEN Failed("SolanaRpcException", text, <<ask>>)
        ELSE IF a.o \in {"no_value", "null"} THEN Got(Zero, <<ask>>)
        ELSE TokenAmount(a.amount, jpl_decimals, text, <<ask>>)

\* a = [connected, o, decimals, balance]
get_wflr_balance(address, a) ==
    LET text == "Error getting WFLR balance"
        ping == Ping("flare", a.connected)
        dec(o) == Call("flare", "decimals", None, o, a.decimals)
        bal(o) == Call("flare", "balanceOf", address, o, a.balance)
    IN  IF ~a.connected
        THEN [ret |-> Zero, raise |-> "", calls |-> <<ping>>,
              out |-> <<Line("Warning: Cannot connect to Flare node", None)>>]
        ELSE IF a.o = "decimals_raise"
             THEN Failed("ContractLogicError", text, <<ping, dec("raise")>>)
        ELSE IF ~ValidAddress(address)
             THEN Failed(AddressError(address), text, <<ping, dec("ok")>>)
        ELSE IF a.o = "balance_raise"
             THEN Failed("ContractLogicError", text, <<ping, dec("ok"), bal("raise")>>)
        ELSE Got(Units(a.balance, a.decimals), <<ping, dec("ok"), bal("ok")>>)

\* get_crypto_prices: params['ids'] of the running script
PriceIds(s) ==
    IF s = "get-asset-status" THEN {"ethereum", "solana", "flare-networks"}
    ELSE {"ethereum", "solana", "flare-networks", "jupiter", "jupiter-protocol"}

\* a = [o, json]
get_crypto_prices(ids, a) ==
    LET ask == Call("coingecko", "simple/price", ids, a.o, a.json)
        class == IF a.o = "raise" THEN "ConnectionError" ELSE "JSONDecodeError"
    IN  IF a.o \in {"raise", "bad_json"}
        THEN IF BalanceCatches(class)
             THEN [ret |-> None, raise |-> "", calls |-> <<ask>>,
                   out |-> <<Line("Error fetching prices", class)>>]
             ELSE [ret |-> None, raise |-> class, calls |-> <<ask>>, out |-> <<>>]
        \* response.status_code != 200
        ELSE IF a.o = "status" THEN Got(None, <<ask>>)
        ELSE Got(a.json, <<ask>>)

\* f"{address[:length]}...{address[-4:]}"
format_address(address) ==
    IF Falsy(address) THEN Str("N/A")
    ELSE [t |-> "abbreviated", address |-> address.s, length |-> 12, tail |-> 4]

\* prices.get(id, {}).get('usd', 0)
UsdPrice(p, id) ==
    IF id \notin DOMAIN p.d THEN Zero
    ELSE IF "usd" \notin DOMAIN p.d[id].d THEN Zero
    ELSE p.d[id].d["usd"]

\* The exception bal * prices.get(id, {}).get('usd', 0) raises ("" when none)
UsdRaises(p, id) ==
    IF p.t # "dict" THEN "AttributeError"
    ELSE IF id \notin DOMAIN p.d THEN ""
    ELSE IF p.d[id].t # "dict" THEN "AttributeError"
    ELSE IF UsdPrice(p, id).t # "number" THEN "TypeError"
    ELSE ""

\* The USD value computed with the price of JPL for every asset
MutUsdValue(bal, p, id) ==
    IF Falsy(p) THEN Str("N/A")
    ELSE LET usd == UsdPrice(p, "jupiter-protocol")
         IN  Dollars(Div10(bal.raw * usd.raw, bal.decimals + usd.decimals), 2)

\* f"${bal * prices.get(id, {}).get('usd', 0):,.2f}" if prices else "N/A"
UsdValue(bal, p, id) ==
    IF Falsy(p) THEN Str("N/A")
    ELSE LET usd == UsdPrice(p, id)
         IN  Dollars(Div10(bal.raw * usd.raw, bal.decimals + usd.decimals), 2)

\* The Status glyph with "bal >= 0" as its test
MutStatus(bal) == IF bal.raw >= 0 THEN Str("present") ELSE Str("absent")

\* "present" if bal > 0 else "absent": the two glyphs of the Status column
Status(bal) == IF bal.raw > 0 THEN Str("present") ELSE Str("absent")

\* main: the rows of balance_data, in order: name, address, balance, unit,
\* price id, and the digits of the price in price_data
AllRows == <<
    [name |-> "Ethereum", address |-> "eth_address", balance |-> "eth_balance",
     unit |-> "ETH", id |-> "ethereum", pair |-> "ETH/USD", digits |-> 2],
    [name |-> "Solana", address |-> "sol_address", balance |-> "sol_balance",
     unit |-> "SOL", id |-> "solana", pair |-> "SOL/USD", digits |-> 2],
    [name |-> "Flare", address |-> "flare_address", balance |-> "flare_balance",
     unit |-> "FLR", id |-> "flare-networks", pair |-> "FLR/USD", digits |-> 4],
    [name |-> "Jupiter", address |-> "sol_address", balance |-> "jup_balance",
     unit |-> "JUP", id |-> "jupiter", pair |-> "JUP/USD", digits |-> 4],
    [name |-> "JPL", address |-> "sol_address", balance |-> "jpl_balance",
     unit |-> "JPL", id |-> "jupiter-protocol", pair |-> "JPL/USD", digits |-> 4],
    [name |-> "Wrapped Flare", address |-> "flare_address", balance |-> "wflr_balance",
     unit |-> "WFLR", id |-> "flare-networks", pair |-> "WFLR/USD", digits |-> 4] >>

\* get-asset-status.py has the first three rows, all prices with 2 digits.
Rows(s) ==
    IF s = "get-asset-status"
    THEN [i \in 1..3 |-> [AllRows[i] EXCEPT !.digits = 2]]
    ELSE AllRows

BalanceRow(r, c, b, p) ==
    [name |-> r.name,
     address |-> format_address(c[r.address]),
     \* f"{eth_balance:.4f} ETH"
     balance |-> [t |-> "amount", n |-> FormatF(b[r.balance], 4), unit |-> r.unit],
     usd |-> UsdValue(b[r.balance], p, r.id),
     status |-> Status(b[r.balance])]

\* ["ETH/USD", f"${prices.get('ethereum', {}).get('usd', 0):.2f}" if prices else "N/A"]
PriceRow(r, p) ==
    [pair |-> r.pair,
     price |-> IF Falsy(p) THEN Str("N/A") ELSE Dollars(UsdPrice(p, r.id), r.digits)]

\* The exception the two table comprehensions of main raise ("" when none)
TablesRaise(s, p) ==
    IF Falsy(p) THEN ""
    ELSE LET bad == {i \in DOMAIN Rows(s) : UsdRaises(p, Rows(s)[i].id) # ""}
         IN  IF bad = {} THEN ""
             ELSE UsdRaises(p, Rows(s)[CHOOSE i \in bad : \A j \in bad : i <= j].id)

(***************************************************************************)
(* The environment of the two scripts: the configuration and the answers   *)
(* of the nodes and of the price API.  The action that asks a source names *)
(* its nominal answer.                                                     *)
(***************************************************************************)
\* os.getenv("ETH_ADDRESS") etc.: unset, empty, or an address
Addresses(address) == {None, Str(""), Str(address)}

\* The answers of a node to get_eth_balance / get_flare_balance, besides the
\* nominal one: [connected, o, wei]
NativeAnswers(nominal) ==
    {nominal,
     [nominal EXCEPT !.connected = FALSE],
     [nominal EXCEPT !.o = "raise"],
     [nominal EXCEPT !.wei = Big(0, 0)],
     [nominal EXCEPT !.wei = Big(-1, 0)]}

\* [o, lamports]; lamports are an unsigned integer of the typed response
SolAnswers(nominal) ==
    {nominal,
     [nominal EXCEPT !.o = "raise"],
     [nominal EXCEPT !.o = "no_value"],
     [nominal EXCEPT !.lamports = Big(0, 0)]}

\* [o, amount]: the call raises with "could not find account" in its text,
\* raises otherwise, answers an error object that has no value, answers a
\* null value, or answers a value whose amount is a string.
TokenAnswers(nominal) ==
    {nominal} \cup
    {[nominal EXCEPT !.o = f] : f \in {"not_found", "raise", "no_value", "null"}} \cup
    {[nominal EXCEPT !.amount = s] :
        s \in {NumStr(Big(0, 0)), NumStr(Big(-1, 0)), NumStr(Big(7, 6)), Str("abc")}}

\* [connected, o, decimals, balance]; decimals() is a uint8 and balanceOf a
\* uint256 of the contract
WflrAnswers(nominal) ==
    {nominal,
     [nominal EXCEPT !.connected = FALSE],
     [nominal EXCEPT !.o = "decimals_raise"],
     [nominal EXCEPT !.o = "balance_raise"],
     [nominal EXCEPT !.decimals = 14],
     [nominal EXCEPT !.balance = Big(0, 0)]}

\* {"ethereum": {"usd": 3000}, "solana": {"usd": 150.5}, ...}
FullPrices(ids) ==
    [id \in ids |->
        JDict([usd |-> CASE id = "ethereum"       -> Div10(3000, 0)
                         [] id = "solana"         -> Div10(1505, 1)
                         [] id = "flare-networks" -> Div10(2, 2)
                         [] id = "jupiter"        -> Div10(5, 1)
                         [] OTHER                 -> Div10(1, 3)])]

\* The request raises, is answered with another status than 200, with a
\* body that is no JSON, or with a JSON object: all prices, one id absent,
\* one id without 'usd', no id at all, or a null price.
PricesAnswers(ids) ==
    {[o |-> "ok", json |-> JDict(FullPrices(ids))]} \cup
    {[o |-> f, json |-> None] : f \in {"raise", "status", "bad_json"}} \cup
    {[o |-> "ok", json |-> JDict(Without(FullPrices(ids), id))] : id \in ids} \cup
    {[o |-> "ok", json |-> JDict([FullPrices(ids) EXCEPT ![id] = JDict(<<>>)])] : id \in ids} \cup
    {[o |-> "ok", json |-> JDict(<<>>)],
     [o |-> "ok", json |-> JDict([FullPrices(ids) EXCEPT !["ethereum"] = JDict([usd |-> None])])]}

(***************************************************************************)
(* main of get-web3-asset-status.py and get-asset-status.py                *)
(***************************************************************************)
\* <var> = checker.get_<...>_balance(), the call having yielded r; the answer
\* counts as an upset when the getter behaves otherwise than on the nominal one.
Fetch(at, next, var, r, nominal) ==
    /\ pc = at
    /\ Upset(IF r = nominal THEN 0 ELSE 1)
    /\ requests' = requests \o r.calls
    /\ stdout' = stdout \o r.out
    /\ IF r.raise # ""
       THEN Crash(r.raise, var) /\ UNCHANGED balance
       ELSE /\ balance' = [balance EXCEPT ![var] = r.ret]
            /\ pc' = next
            /\ UNCHANGED exc
    /\ UNCHANGED <<script, debug, checker, prices, balance_data, price_data>>
    /\ UNCHANGED non_status_vars

GetEthBalance ==
    LET nominal == [connected |-> TRUE, o |-> "ok", wei |-> Big(15, 17)]
    IN  \E a \in NativeAnswers(nominal) :
            Fetch("get_eth", "get_sol", "eth_balance",
                  get_eth_balance(checker.eth_address, a),
                  get_eth_balance(checker.eth_address, nominal))

GetSolBalance ==
    LET nominal == [o |-> "ok", lamports |-> Big(25, 8)]
    IN  \E a \in SolAnswers(nominal) :
            Fetch("get_sol", "get_flare", "sol_balance",
                  get_sol_balance(checker.sol_address, a),
                  get_sol_balance(checker.sol_address, nominal))

\* get-asset-status.py has no token getters
GetFlareBalance ==
    LET nominal == [connected |-> TRUE, o |-> "ok", wei |-> Big(1000, 18)]
    IN  \E a \in NativeAnswers(nominal) :
            Fetch("get_flare",
                  IF script = "get-asset-status" THEN "get_prices" ELSE "get_jup",
                  "flare_balance",
                  get_flare_balance(checker.flare_address, a),
                  get_flare_balance(checker.flare_address, nominal))

GetJupBalance ==
    LET nominal == [o |-> "ok", amount |-> NumStr(Big(25, 5))]
    IN  \E a \in TokenAnswers(nominal) :
            Fetch("get_jup", "get_jpl", "jup_balance",
                  get_jup_balance(checker.sol_address, a),
                  get_jup_balance(checker.sol_address, nominal))

GetJplBalance ==
    LET nominal == [o |-> "ok", amount |-> NumStr(Big(4, 6))]
    IN  \E a \in TokenAnswers(nominal) :
            Fetch("get_jpl", "get_wflr", "jpl_balance",
                  get_jpl_balance(checker.sol_address, a),
                  get_jpl_balance(checker.sol_address, nominal))

GetWflrBalance ==
    LET nominal == [connected |-> TRUE, o |-> "ok", decimals |-> 18,
                    balance |-> Big(12, 17)]
    IN  \E a \in WflrAnswers(nominal) :
            Fetch("get_wflr", "get_prices", "wflr_balance",
                  get_wflr_balance(checker.flare_address, a),
                  get_wflr_balance(checker.flare_address, nominal))

\* main going on to the tables without having fetched the prices
MutGetPrices ==
    /\ pc = "get_prices"
    /\ pc' = "build_tables"
    /\ UNCHANGED <<exc, stdout, requests, upsets, status_vars>>
    /\ UNCHANGED non_status_vars

\* prices = checker.get_crypto_prices(); the nominal answer has every price
GetPrices ==
    /\ pc = "get_prices"
    /\ \E a \in PricesAnswers(PriceIds(script)) :
         LET r == get_crypto_prices(PriceIds(script), a)
             nominal == [o |-> "ok", json |-> JDict(FullPrices(PriceIds(script)))]
         IN  /\ Upset(IF a = nominal THEN 0 ELSE 1)
             /\ requests' = requests \o r.calls
             /\ stdout' = stdout \o r.out
             /\ IF r.raise # ""
                THEN Crash(r.raise, "get_crypto_prices") /\ UNCHANGED prices
                ELSE /\ prices' = r.ret
                     /\ pc' = "build_tables"
                     /\ UNCHANGED exc
    /\ UNCHANGED <<script, debug, checker, balance, balance_data, price_data>>
    /\ UNCHANGED non_status_vars

\* balance_data = [...]; price_data = [...]; print(tabulate(...)) twice
BuildTables ==
    /\ pc = "build_tables"
    /\ IF TablesRaise(script, prices) # ""
       THEN /\ Crash(TablesRaise(script, prices), "main")
            /\ UNCHANGED <<balance_data, price_data, stdout>>
       ELSE LET bd == [i \in DOMAIN Rows(script) |->
                          BalanceRow(Rows(script)[i], checker, balance, prices)]
                pd == [i \in DOMAIN Rows(script) |-> PriceRow(Rows(script)[i], prices)]
            IN  /\ balance_data' = bd
                /\ price_data' = pd
                /\ stdout' = stdout \o <<Line("Cryptocurrency Balance Report", None),
                                         Line("Balance Details", bd),
                                         Line("Current Prices", pd)>>
                /\ pc' = IF debug THEN "main_debug" ELSE "done"
                /\ UNCHANGED exc
    /\ UNCHANGED <<script, debug, checker, balance, prices, requests, upsets>>
    /\ UNCHANGED non_status_vars

\* if debug: print(f"ETH Node Connected: {checker.eth_w3.is_connected()}") ...
Debug ==
    /\ pc = "main_debug"
    /\ \E connected \in BOOLEAN :
         /\ Upset(IF connected THEN 0 ELSE 1)
         /\ requests' = requests \o <<Ping("ethereum", connected)>>
         /\ stdout' = stdout \o
                <<Line("Debug Information", None),
                  Line("ETH Node Connected", connected),
                  Line("Price API Status",
                       IF Falsy(prices) THEN "Not Connected" ELSE "Connected")>>
    /\ pc' = "done"
    /\ UNCHANGED <<exc, status_vars>>
    /\ UNCHANGED non_status_vars

InitStatus ==
    /\ pc = "get_eth"
    /\ exc = NoExc
    /\ stdout = <<>>
    /\ requests = <<>>
    /\ PricesIdle
    /\ CexIdle
    /\ script \in {"get-asset-status", "get-web3-asset-status"}
    /\ debug \in BOOLEAN
    /\ checker \in [eth_address : Addresses("0xEthAddress0123456789"),
                    sol_address : Addresses("SolAddress0123456789"),
                    flare_address : Addresses("0xFlareAddress0123456789")]
    /\ balance = [b \in {"eth_balance", "sol_balance", "flare_balance",
                          "jup_balance", "jpl_balance", "wflr_balance"} |-> None]
    /\ prices = None
    /\ balance_data = <<>>
    /\ price_data = <<>>

NextStatus ==
    \/ GetEthBalance
    \/ GetSolBalance
    \/ GetFlareBalance
    \/ GetJupBalance
    \/ GetJplBalance
    \/ GetWflrBalance
    \/ GetPrices
    \/ BuildTables
    \/ Debug

\* One run of get-web3-asset-status.py or of get-asset-status.py
SpecStatus == InitStatus /\ [][NextStatus]_vars

(***************************************************************************)
(* get-cex-balances.py: one call of a provider operation by a client of    *)
(* the Exchange interface, for any exchange, ticker and upstream answer.   *)
(* requests keeps the call with its answer and its result.                 *)
(***************************************************************************)
\* <exchange>.get_current_price(ticker)
CallCurrentPrice ==
    /\ pc = "call"
    /\ \E n \in ExchangeNames, t \in {"BTC", "XYZ", "KRW", "krw", "Krw"}, p \in CurrentPrices :
         LET r == CASE n = "upbit"  -> UpbitCurrentPrice(t, p)
                    [] n = "korbit" -> KorbitCurrentPrice(t, p)
                    [] OTHER        -> BithumbCurrentPrice(t, p)
         IN  /\ requests' = <<[src |-> n, op |-> "get_current_price", ticker |-> t,
                               answer |-> p, ret |-> r.ret, raise |-> r.raise,
                               calls |-> r.calls]>>
             /\ stdout' = r.out
             /\ price' = r.ret
             /\ IF r.raise # "" THEN Crash(r.raise, "get_current_price")
                ELSE pc' = "done" /\ UNCHANGED exc
    /\ UNCHANGED <<env, exchanges, balances, non_zero_balances, detailed_price>>
    /\ UNCHANGED non_cex_vars

\* <exchange>.get_detailed_price(ticker)
CallDetailedPrice ==
    /\ pc = "call"
    /\ \E n \in ExchangeNames, t \in {"BTC", "XYZ", "KRW", "krw", "Krw"},
          resp \in UpbitResponses \cup KorbitResponses, o \in BithumbOhlcv, c \in CurrentPrices :
         LET r == CASE n = "upbit"  -> UpbitDetailed(t, resp)
                    [] n = "korbit" -> KorbitDetailed(t, resp)
                    [] OTHER        -> BithumbDetailed(t, o, c)
         IN  /\ n = "upbit" => resp \in UpbitResponses
             /\ n = "korbit" => resp \in KorbitResponses
             /\ requests' = <<[src |-> n, op |-> "get_detailed_price", ticker |-> t,
                               answer |-> IF n = "bithumb" THEN <<o, c>> ELSE <<resp>>,
                               ret |-> r.ret, raise |-> r.raise]>>
             /\ stdout' = r.out
             /\ detailed_price' = [detailed_price EXCEPT ![n] = r.ret]
             /\ IF r.raise # "" THEN Crash(r.raise, "get_detailed_price")
                ELSE pc' = "done" /\ UNCHANGED exc
    /\ UNCHANGED <<env, exchanges, balances, non_zero_balances, price>>
    /\ UNCHANGED non_cex_vars

InitProviders ==
    /\ pc = "call"
    /\ exc = NoExc
    /\ stdout = <<>>
    /\ requests = <<>>
    /\ PricesIdle
    /\ CexIdle
    /\ StatusIdle

NextProviders ==
    \/ CallCurrentPrice
    \/ CallDetailedPrice

\* One call of one provider operation
SpecProviders == InitProviders /\ [][NextProviders]_vars

\* One run of one of the report scripts that query several sources in turn:
\* get-web3-asset-status.py, get-asset-status.py or get-cex-balances.py
SpecReports == (InitStatus \/ InitCex) /\ [][NextStatus \/ NextCex]_vars

(***************************************************************************)
(* Properties                                                              *)
(***************************************************************************)
PriceSources == {"upbit", "korbit", "binance", "okx", "bithumb"}

\* The column that holds what a price source returned.
SourceColumn(src) ==
    CASE src = "upbit"   -> "Upbit (KRW)"
      [] src = "korbit"  -> "Korbit (KRW)"
      [] src = "bithumb" -> "Bithumb (KRW)"
      [] src = "binance" -> "Binance (USDT)"
      [] OTHER           -> "OKX (USDT)"

\* The requests of a price source about the i-th asset.
RequestsOf(src, i) ==
    {k \in DOMAIN requests : requests[k].src = src /\ requests[k].ticker = tickers[i][src]}

\* get_crypto_prices_df has returned to main.
Returned == pc \in {"main_format", "main_rate", "main_rate_ex", "done"}

\* C3: within one run of get_crypto_prices_df the KRW-USDT rate is requested
\* (get_exchange_rate is called) at most once.
C3_RateFetchedAtMostOnce ==
    Cardinality({k \in DOMAIN requests : requests[k].src = "rate"}) <= 1

\* The <<USDT price, KRW price>> pairs of the rows of data where both are there.
ConvertedPairs ==
    {p \in UNION {{<<data[i]["Binance (USDT)"], data[i]["Binance (KRW)"]>>,
                   <<data[i]["OKX (USDT)"], data[i]["OKX (KRW)"]>>} : i \in DOMAIN data} :
        p[1] # None /\ p[2] # None}

\* C4: in one run, KRW price / USDT price is the same rate for every asset and
\* for both Binance and OKX (compared by cross-multiplication).
C4_SameRateInEveryRow ==
    \A p, q \in ConvertedPairs : p[2].v * q[1].v = q[2].v * p[1].v

\* C5: get_crypto_prices_df yields one row per tracked asset, BTC, SOL, ETH, FLR,
\* JUP in that order, each with the seven exchange columns; every source is
\* requested once for every asset, a failed request is recorded as None in its
\* column, and no exception leaves the function.
C5_OneRowPerAssetEveryColumn ==
    /\ exc = NoExc
    /\ pc # "crashed"
    /\ Returned => Len(data) = 5
    /\ \A i \in DOMAIN data :
         /\ i <= 5
         /\ data[i]["Asset"] = Str(<<"BTC", "SOL", "ETH", "FLR", "JUP">>[i])
         /\ Cardinality(DOMAIN data[i] \ {"Asset"}) = 7
         /\ \A c \in DOMAIN data[i] \ {"Asset"} : data[i][c].t \in {"None", "float"}
         /\ \A src \in PriceSources :
              /\ Cardinality(RequestsOf(src, i)) = 1
              /\ \A k \in RequestsOf(src, i) :
                   requests[k].ok <=> data[i][SourceColumn(src)] # None

\* C5 witness: the run is over, the first request of the run failed, and all five
\* rows are there.
C5_Witness ==
    /\ pc = "done"
    /\ Len(data) = 5
    /\ ~requests[1].ok
    /\ data[1]["Binance (USDT)"] = None
    /\ data[5]["Bithumb (KRW)"] # None

\* C7: in the printed price table every cell whose fetch failed (None in the data
\* frame) is rendered as "N/A".
C7_FailedCellRendersNA ==
    pc \in {"main_rate", "main_rate_ex", "done"} =>
        \A i \in DOMAIN data : \A c \in Columns :
            data[i][c] = None => df[i][c] = Str("N/A")


\* The operations of the providers, as named in exc.where.
ProviderOperations ==
    {"get_balances", "get_current_price", "UpbitExchange.get_detailed_price",
     "KorbitExchange.get_detailed_price", "BithumbExchange.get_detailed_price",
     "get_upbit_price", "get_korbit_price", "get_bithumb_price", "get_binance_price",
     "get_okx_price", "get_exchange_rate", "get_exchange_rate_ex"}

\* The exchanges main has asked for their balances.
Queried == {requests[k].src : k \in {i \in DOMAIN requests : requests[i].ticker = "get_balances"}}

\* The exchanges registered in the manager.
Registered == {exchanges[i].name : i \in DOMAIN exchanges}

\* C1: main of get-cex-balances runs to completion whatever its exchanges'
\* operations yield (a value, an empty result, their failure value): the
\* statements of main raise nothing on what the operations returned, and when
\* main is over every registered exchange has been queried and reported.  (An
\* exception that an operation itself lets escape is the matter of C2.)
C1_MainRunsToCompletion ==
    /\ exc # NoExc => exc.where \in ProviderOperations
    /\ pc = "done" =>
         \A n \in Registered :
             /\ n \in Queried
             /\ \E k \in DOMAIN stdout : stdout[k].exch = n

\* C2: no exception escapes a provider operation: each returns a value or its
\* failure value for every upstream response.
C2_NoExceptionEscapesProvider ==
    exc = NoExc \/ exc.where \notin ProviderOperations

AccessKey(n) ==
    CASE n = "upbit" -> "UPBIT_ACCESS_KEY" [] n = "korbit" -> "KORBIT_ACCESS_KEY"
      [] OTHER -> "BITHUMB_ACCESS_KEY"

SecretKey(n) ==
    CASE n = "upbit" -> "UPBIT_SECRET_KEY" [] n = "korbit" -> "KORBIT_SECRET_KEY"
      [] OTHER -> "BITHUMB_SECRET_KEY"

\* C10: after create_default_manager an exchange is registered if and only if its
\* access key and its secret key are both there and not empty; get_exchange of an
\* unregistered name yields None; an unregistered exchange is never queried and
\* nothing is printed about it.
C10_RegisteredIffBothKeys ==
    pc # "cex_start" =>
        /\ get_exchange("binance") = None
        /\ \A n \in ExchangeNames :
             /\ get_exchange(n) # None <=>
                   /\ env[AccessKey(n)] \notin {None, Str("")}
                   /\ env[SecretKey(n)] \notin {None, Str("")}
             /\ get_exchange(n) # None =>
                   /\ get_exchange(n).access_key = env[AccessKey(n)]
                   /\ get_exchange(n).secret_key = env[SecretKey(n)]
             /\ get_exchange(n) = None =>
                   /\ \A k \in DOMAIN requests : requests[k].src # n
                   /\ \A k \in DOMAIN stdout : stdout[k].exch # n

\* C10 witness: main is over; upbit had its access key only and bithumb an empty
\* secret key, neither was queried; korbit had both keys and was queried.
C10_Witness ==
    /\ pc = "done"
    /\ env["UPBIT_ACCESS_KEY"] = Str("key") /\ env["UPBIT_SECRET_KEY"] = None
    /\ env["BITHUMB_ACCESS_KEY"] = Str("key") /\ env["BITHUMB_SECRET_KEY"] = Str("")
    /\ Registered = {"korbit"}
    /\ Queried = {"korbit"}

\* The price of an asset is absent from the answer of get_crypto_prices: the
\* whole answer is missing, or it lacks the id or the 'usd' field of the id.
PriceAbsent(p, id) ==
    \/ p = None
    \/ /\ p.t = "dict"
       /\ \/ id \notin DOMAIN p.d
          \/ p.d[id].t = "dict" /\ "usd" \notin DOMAIN p.d[id].d

\* C6: in the balance table, whenever the price of the asset of a row is absent
\* (no price answer at all, or an answer without the id or without its 'usd'
\* field), the USD Value cell of the row is "N/A", whatever the balance is.
C6_AbsentPriceRendersNA ==
    \A i \in DOMAIN balance_data :
        PriceAbsent(prices, Rows(script)[i].id) => balance_data[i].usd = Str("N/A")

\* The calls of get_jup_balance / get_jpl_balance that found no token account:
\* the node answered a null value, or the call failed with account-not-found.
NoAccountCalls(token_address) ==
    {k \in DOMAIN requests :
        /\ requests[k].method = "get_token_account_balance"
        /\ requests[k].arg = token_address
        /\ requests[k].o \in {"null", "not_found"}}

\* The "Error getting ... balance" lines printed so far with this text.
ErrorLines(text) == {k \in DOMAIN stdout : stdout[k].text = text}

\* C8: when the token account of the owner does not exist, get_jup_balance and
\* get_jpl_balance return exactly 0 and print no "Error getting ... balance"
\* line for it.
C8_MissingAccountIsZeroAndNoError ==
    /\ NoAccountCalls(jup_token_address) # {} =>
          /\ balance.jup_balance = Zero
          /\ ErrorLines("Error getting JUP balance") = {}
    /\ NoAccountCalls(jpl_token_address) # {} =>
          /\ balance.jpl_balance = Zero
          /\ ErrorLines("Error getting JPL balance") = {}

\* C9: every balance a getter of CryptoBalanceChecker has returned is greater
\* than or equal to 0, whatever the node answered.
C9_BalancesNeverNegative ==
    \A b \in DOMAIN balance : balance[b] # None => balance[b].raw >= 0

\* The address the calls to a chain are made for.
ChainAddress(chain) ==
    CASE chain = "ethereum" -> checker.eth_address
      [] chain = "solana"   -> checker.sol_address
      [] OTHER              -> checker.flare_address

\* C11: when the address of a chain (ETH_ADDRESS, SOL_ADDRESS, FLARE_ADDRESS) is
\* not configured, no call at all is sent to that chain, the connectivity check
\* of its node included.
C11_NoCallWithoutAddress ==
    \A k \in DOMAIN requests :
        requests[k].chain \in {"ethereum", "solana", "flare"} =>
            ChainAddress(requests[k].chain) # None

\* C12: get_current_price of any exchange, for a symbol other than KRW, when
\* the client library yields no price (unknown symbol, source unreachable) or
\* raises, returns None: it returns no number and raises nothing.
C12_NoPriceIsNone ==
    \A k \in DOMAIN requests :
        /\ requests[k].op = "get_current_price"
        /\ ~IsKRW(requests[k].ticker)
        /\ requests[k].answer \in {None, Str("raise")}
        => requests[k].ret = None /\ requests[k].raise = ""

\* C13: get_detailed_price of any exchange, asked about KRW in any letter case,
\* returns the 'not applicable' result None, raises nothing and reports no
\* error (prints nothing), whatever the exchange answers.
C13_KrwIsNotApplicable ==
    \A k \in DOMAIN requests :
        requests[k].op = "get_detailed_price" /\ IsKRW(requests[k].ticker)
        => /\ requests[k].ret = None
           /\ requests[k].raise = ""
           /\ stdout = <<>>

\* C14: no request is retried within a run: once a request to a source has
\* failed, the same source is not asked the same thing again later in the run
\* (the KRW-USDT rate source included).
C14_NoRetryAfterFailure ==
    \A j, k \in DOMAIN requests :
        /\ j < k
        /\ requests[j].src = requests[k].src
        /\ requests[j].ticker = requests[k].ticker
        => requests[j].ok

\* The balance getters in the order main calls them, and the position of main
\* before each call.
FetchOrder == <<"eth_balance", "sol_balance", "flare_balance",
                "jup_balance", "jpl_balance", "wflr_balance">>

FetchPc == <<"get_eth", "get_sol", "get_flare", "get_jup", "get_jpl", "get_wflr">>

\* The balances the running script fetches.
Fetched == {Rows(script)[i].balance : i \in DOMAIN Rows(script)}

\* The price request has been made.
PricesAsked ==
    \E k \in DOMAIN requests :
        "chain" \in DOMAIN requests[k] /\ requests[k].chain = "coingecko"

ExchangeRank(n) == CASE n = "upbit" -> 1 [] n = "korbit" -> 2 [] OTHER -> 3

\* C15: the balance getters run one at a time in the fixed order ETH, SOL,
\* Flare, JUP, JPL, WFLR, each one resolved (with a value or the failure value)
\* before the next is called, the price fetch comes after all of them, and no
\* table is built or printed before every fetch has resolved; get-cex-balances
\* queries the exchanges in the order upbit, korbit, bithumb.
C15_SequentialWithBarrier ==
    /\ \A i \in DOMAIN FetchOrder :
         /\ balance[FetchOrder[i]] # None =>
               /\ FetchOrder[i] \in Fetched
               /\ \A j \in 1..(i - 1) : balance[FetchOrder[j]] # None
         /\ pc = FetchPc[i] =>
               /\ balance[FetchOrder[i]] = None
               /\ ~PricesAsked
               /\ \A j \in 1..(i - 1) : balance[FetchOrder[j]] # None
    /\ pc = "get_prices" => ~PricesAsked
    /\ PricesAsked \/ pc = "get_prices" => \A b \in Fetched : balance[b] # None
    /\ \/ balance_data # <<>>
       \/ price_data # <<>>
       \/ \E k \in DOMAIN stdout : stdout[k].text \in {"Balance Details", "Current Prices"}
       => PricesAsked /\ pc \in {"main_debug", "done"}
    /\ \A j, k \in DOMAIN requests :
         j < k /\ "src" \in DOMAIN requests[j] /\ "src" \in DOMAIN requests[k]
         => ExchangeRank(requests[j].src) <= ExchangeRank(requests[k].src)

\* C15 witness: get-web3-asset-status.py has printed its tables after the JUP
\* fetch failed and the price fetch was answered.
C15_Witness ==
    /\ script = "get-web3-asset-status"
    /\ pc = "done"
    /\ Len(balance_data) = 6
    /\ balance.jup_balance = Zero
    /\ \E k \in DOMAIN stdout : stdout[k].text = "Error getting JUP balance"
    /\ prices # None

\* The calls of a method to a chain that were answered with a value.
Answered(chain, method, arg) ==
    {k \in DOMAIN requests :
        /\ "chain" \in DOMAIN requests[k]
        /\ requests[k].chain = chain
        /\ requests[k].method = method
        /\ requests[k].arg = arg
        /\ requests[k].o = "ok"}

\* The balance a getter returned is the value the call k was answered with,
\* divided by 10 ** decimals.
Converted(b, k, decimals) == balance[b] = Units(requests[k].value, decimals)

\* C16: every getter divides the raw amount it was answered by 10 ** decimals of
\* its own asset: 18 for ETH and FLR wei, 9 for SOL lamports, 6 for JUP and JPL,
\* and the decimals() the contract answered for WFLR; the same raw amount
\* divided for a 6-decimal token and for an 18-decimal asset gives different
\* amounts.
C16_OwnDecimals ==
    /\ \A k \in Answered("ethereum", "get_balance", checker.eth_address) :
         requests[k].value.m >= 0 => Converted("eth_balance", k, 18)
    /\ \A k \in Answered("flare", "get_balance", checker.flare_address) :
         requests[k].value.m >= 0 => Converted("flare_balance", k, 18)
    /\ \A k \in Answered("solana", "get_balance", checker.sol_address) :
         Converted("sol_balance", k, 9)
    /\ \A k \in Answered("solana", "get_token_account_balance", jup_token_address) :
         requests[k].value.t = "numstr" =>
             /\ balance.jup_balance = Units(requests[k].value.v, 6)
             /\ requests[k].value.v.m # 0 =>
                    balance.jup_balance # Units(requests[k].value.v, 18)
    /\ \A k \in Answered("solana", "get_token_account_balance", jpl_token_address) :
         requests[k].value.t = "numstr" =>
             balance.jpl_balance = Units(requests[k].value.v, 6)
    /\ \A k \in Answered("flare", "balanceOf", checker.flare_address) :
         \E d \in Answered("flare", "decimals", None) :
             /\ d < k
             /\ Converted("wflr_balance", k, requests[d].value)

\* C16 witness: the run is over; 2.5 * 10 ** 9 lamports became 2.5 SOL,
\* 2.5 * 10 ** 6 units 2.5 JUP, and 12 * 10 ** 17 units of WFLR, whose
\* contract answered 14 decimals, became 12000 WFLR.
C16_Witness ==
    /\ pc = "done"
    /\ balance.sol_balance = Div10(25, 1)
    /\ balance.jup_balance = Div10(25, 1)
    /\ balance.wflr_balance = Div10(12000, 0)
    /\ \E k \in Answered("flare", "decimals", None) : requests[k].value = 14
    /\ \E k \in Answered("solana", "get_balance", checker.sol_address) :
           requests[k].value = Big(25, 8)

\* The price id and the balance of the asset a row of the balance table is about.
OwnAsset(name) ==
    CASE name = "Ethereum" -> [id |-> "ethereum", balance |-> "eth_balance"]
      [] name = "Solana"   -> [id |-> "solana", balance |-> "sol_balance"]
      [] name = "Flare"    -> [id |-> "flare-networks", balance |-> "flare_balance"]
      [] name = "Jupiter"  -> [id |-> "jupiter", balance |-> "jup_balance"]
      [] name = "JPL"      -> [id |-> "jupiter-protocol", balance |-> "jpl_balance"]
      [] OTHER             -> [id |-> "flare-networks", balance |-> "wflr_balance"]

\* The price of an id was obtained.
PriceObtained(id) == prices # None /\ prices.t = "dict" /\ ~PriceAbsent(prices, id)

\* cents / 100 is amount * usd rounded to 2 decimal places: it differs from the
\* product by half a cent at most.
IsRounded(cents, amount, usd) ==
    LET scale == Pow10(amount.decimals + usd.decimals)
        product == amount.raw * usd.raw
        exact == 100 * (IF product < 0 THEN 0 - product ELSE product)
        diff == IF exact < cents * scale THEN cents * scale - exact
                ELSE exact - cents * scale
    IN  2 * diff <= scale

\* C17: in every row of the balance table whose asset has a price, the USD
\* Value cell is the balance of the row's asset times the USD price of that
\* asset, rounded to 2 decimal places.
C17_UsdValueIsAmountTimesPrice ==
    \A i \in DOMAIN balance_data :
        LET own == OwnAsset(balance_data[i].name)
            cell == balance_data[i].usd
        IN  PriceObtained(own.id) =>
                /\ cell.t = "dollars"
                /\ cell.n.digits = 2
                /\ IsRounded(cell.n.v, balance[own.balance], prices.d[own.id].d["usd"])

\* C17 witness: the tables are built; 2.5 SOL at 150.5 USD show $376.25 and
\* 2.5 JUP at 0.5 USD show $1.25.
C17_Witness ==
    /\ pc = "done"
    /\ Len(balance_data) = 6
    /\ balance.sol_balance = Div10(25, 1)
    /\ PriceObtained("solana") /\ prices.d["solana"].d["usd"] = Div10(1505, 1)
    /\ balance_data[2].usd.t = "dollars" /\ balance_data[2].usd.n.v = 37625
    /\ PriceObtained("jupiter")
    /\ balance_data[4].usd.t = "dollars" /\ balance_data[4].usd.n.v = 125


\* The fields of the common shape of a price record.
CommonFields == {"prev_closing_price", "opening_price", "current_price",
                 "low_price", "high_price", "volume"}

\* C18: every record get_detailed_price returns, on any exchange, has the
\* previous-close, open, current, low, high and volume fields under the same keys.
C18_CommonShape ==
    \A i \in DOMAIN requests :
        LET q == requests[i]
        IN  ("op" \in DOMAIN q /\ q.op = "get_detailed_price" /\ q.ret # None)
                => q.ret.t = "dict" /\ CommonFields \subseteq DOMAIN q.ret.d


\* C19: in every row of the balance table the Status cell is the 'present'
\* glyph when the balance of the row's asset is greater than zero, and the
\* 'absent' glyph otherwise.
C19_PresentIffPositive ==
    \A i \in DOMAIN balance_data :
        LET bal == balance[OwnAsset(balance_data[i].name).balance]
        IN  /\ balance_data[i].status \in {Str("present"), Str("absent")}
            /\ balance_data[i].status = Str("present") <=> bal.raw > 0

\* C19 witness: a wallet with 2.5 SOL and no JUP token account: the Solana row
\* shows 'present' and the Jupiter row 'absent'.
C19_Witness ==
    /\ pc = "done"
    /\ Len(balance_data) = 6
    /\ balance.sol_balance = Div10(25, 1)
    /\ balance_data[2].status = Str("present")
    /\ NoAccountCalls(jup_token_address) # {}
    /\ balance.jup_balance = Zero
    /\ balance_data[4].status = Str("absent")


\* The outcomes of a call that are a connectivity failure: the node is
\* unreachable, the call raises, or the HTTP status is not 200.
ConnectivityFailures == {"unreachable", "raise", "status"}

\* The diagnostic lines that report the failure of a call.
Diagnostic(q) ==
    CASE q.chain = "coingecko" -> {"Error fetching prices"}
      [] q.method = "is_connected" ->
            {"Warning: Cannot connect to Ethereum node",
             "Warning: Cannot connect to Flare node", "ETH Node Connected"}
      [] OTHER ->
            {"Error getting ETH balance", "Error getting SOL balance",
             "Error getting Flare balance", "Error getting JUP balance",
             "Error getting JPL balance", "Error getting WFLR balance"}

\* C20: every connectivity failure of an upstream call is logged by a
\* diagnostic line, and a failed price request leaves the prices None.
C20_FailuresAreLogged ==
    \A k \in DOMAIN requests :
        requests[k].o \in ConnectivityFailures =>
            /\ \E l \in DOMAIN stdout : stdout[l].text \in Diagnostic(requests[k])
            /\ requests[k].chain = "coingecko" => prices = None


\* C21: the rate get_crypto_prices_df returns to main is the rate of every
\* converted price of the table: each Binance (KRW) and OKX (KRW) price that is
\* there is the USDT price of its row times the returned rate.
C21_ReturnedRateIsTheRateUsed ==
    Returned =>
        \A p \in ConvertedPairs :
            /\ exchange_rate # None
            /\ p[2].v = p[1].v * exchange_rate.v


\* The <<USDT price, KRW price>> that get_binance_price or get_okx_price
\* returned for the i-th asset: the row of data, or the variables of the
\* iteration that is running.
PairOf(src, i) ==
    IF i \in DOMAIN data
    THEN IF src = "binance" THEN <<data[i]["Binance (USDT)"], data[i]["Binance (KRW)"]>>
         ELSE <<data[i]["OKX (USDT)"], data[i]["OKX (KRW)"]>>
    ELSE IF src = "binance" THEN binance ELSE okx

\* The rate requests the call that made request k made itself.
OwnRate(k) ==
    {j \in DOMAIN requests :
        j = k + 1 /\ requests[j].src = "rate" /\ requests[j].by = requests[k].src}

\* C22: get_binance_price and get_okx_price return (None, None) and request no
\* rate when the USDT request fails, (usdt, None) when the rate they request is
\* not usable, and (usdt, usdt * rate) otherwise: a KRW price never comes
\* without its USDT price.
C22_NoKrwWithoutUsdt ==
    \A src \in {"binance", "okx"}, i \in DOMAIN tickers :
        \A k \in RequestsOf(src, i) :
            LET pair == PairOf(src, i)
            IN  /\ pair[2] # None => pair[1] # None
                /\ IF ~requests[k].ok
                   THEN pair = <<None, None>> /\ OwnRate(k) = {}
                   ELSE /\ pair[1] # None
                        /\ \E j \in OwnRate(k) :
                              LET rate == requests[j].val
                              IN  pair[2] = IF rate # None /\ rate.v # 0
                                            THEN Num(pair[1].v * rate.v) ELSE None

\* C22 witness: BTC got both Binance prices (2 USDT at 1300) and, its USDT
\* request having failed, no OKX price; then the rate fails and Binance returns
\* the USDT price of SOL without a KRW price.
C22_Witness ==
    /\ Len(data) >= 1
    /\ data[1]["Binance (USDT)"] = Num(2) /\ data[1]["Binance (KRW)"] = Num(2600)
    /\ data[1]["OKX (USDT)"] = None /\ data[1]["OKX (KRW)"] = None
    /\ \E k \in RequestsOf("binance", 2) :
          /\ requests[k].ok
          /\ \E j \in OwnRate(k) : requests[j].val = None
    /\ PairOf("binance", 2) = <<Num(3), None>>


\* The calls of get_token_account_balance made for the token account of a mint.
TokenCalls(token_address) ==
    {k \in DOMAIN requests :
        /\ requests[k].method = "get_token_account_balance"
        /\ requests[k].arg = token_address}

\* get_jup_balance and get_jpl_balance have both returned.
TokensFetched == balance.jup_balance # None /\ balance.jpl_balance # None

\* C23: on the same owner address and the same outcome of the token account
\* request, get_jup_balance and get_jpl_balance return the same amount: the raw
\* amount over 10^6 when the request yields a numeric amount, 0 otherwise.
C23_SameAmountOnSameOutcome ==
    TokensFetched =>
        /\ (TokenCalls(jup_token_address) = {} /\ TokenCalls(jpl_token_address) = {})
              => balance.jup_balance = Zero /\ balance.jpl_balance = Zero
        /\ \A j \in TokenCalls(jup_token_address), k \in TokenCalls(jpl_token_address) :
              (requests[j].o = requests[k].o /\ requests[j].value = requests[k].value)
                  => /\ balance.jup_balance = balance.jpl_balance
                     /\ balance.jup_balance =
                            IF requests[j].o = "ok" /\ requests[j].value.t = "numstr"
                            THEN Units(requests[j].value.v, 6) ELSE Zero

\* C23 witness: both token accounts answer the raw amount 7000000 and both
\* getters have returned 7.
C23_Witness ==
    /\ TokensFetched
    /\ \E j \in TokenCalls(jup_token_address), k \in TokenCalls(jpl_token_address) :
          /\ requests[j].o = "ok" /\ requests[k].o = "ok"
          /\ requests[j].value = NumStr(Big(7, 6))
          /\ requests[k].value = NumStr(Big(7, 6))
    /\ balance.jup_balance = Div10(7, 0)
    /\ balance.jpl_balance = Div10(7, 0)


\* C24: get_current_price of any exchange, asked about KRW in any letter case,
\* returns 1.0 without calling the client library, whatever the library would
\* answer: it raises nothing and prints nothing.
C24_KrwIsOneWithoutCall ==
    \A k \in DOMAIN requests :
        requests[k].op = "get_current_price" /\ IsKRW(requests[k].ticker)
        => /\ requests[k].ret = Num(1)
           /\ requests[k].calls = 0
           /\ requests[k].raise = ""
           /\ stdout = <<>>

\* C24 witness: Upbit was asked the price of 'krw' while its library raises,
\* and returned 1.0.
C24_Witness ==
    /\ pc = "done"
    /\ Len(requests) = 1
    /\ requests[1].src = "upbit"
    /\ requests[1].op = "get_current_price"
    /\ requests[1].ticker = "krw"
    /\ requests[1].answer = Str("raise")
    /\ price = Num(1)


\* The values get_exchange_rate returned to get_crypto_prices_df itself, in order.
OwnFetches ==
    SelectSeq(requests, LAMBDA r : r.src = "rate" /\ r.by = "get_crypto_prices_df")

\* A rate the test 'if not exchange_rate' takes as there: not None, not 0.
Usable(rate) == rate # None /\ rate.v # 0

\* C25: get_crypto_prices_df fetches its exchange_rate at most once per
\* iteration and only while it holds no usable rate: every fetch but the last
\* yielded no usable rate, the variable holds what the last fetch yielded, and
\* the function returns None only after a fetch in every iteration, none of
\* which yielded a usable rate.
C25_RateKeptOnceUsable ==
    /\ \A k \in 1..(Len(OwnFetches) - 1) : ~Usable(OwnFetches[k].val)
    /\ exchange_rate = IF OwnFetches = <<>> THEN None
                       ELSE OwnFetches[Len(OwnFetches)].val
    /\ Len(OwnFetches) <= asset_i
    /\ (Returned /\ exchange_rate = None) =>
          /\ Len(OwnFetches) = Len(tickers)
          /\ \A k \in DOMAIN OwnFetches : ~Usable(OwnFetches[k].val)

\* C25 witness: the fetch of the first iteration failed, the fetch of the
\* second yielded 1300, and the function returned 1300 after five iterations
\* without another fetch.
C25_Witness ==
    /\ Returned
    /\ Len(data) = Len(tickers)
    /\ Len(OwnFetches) = 2
    /\ OwnFetches[1].val = None
    /\ OwnFetches[2].val = Num(1300)
    /\ exchange_rate = Num(1300)

=============================================================================
